---- MODULE Spec2Model ----
(***************************************************************************)
(* A model of the CPRA processor's review reconciliation (ReviewManager,   *)
(* DocumentReview), of the bounded-retry structured query of OllamaClient  *)
(* (analyze_responsiveness / analyze_exemptions) and of its two result     *)
(* validators.                                                             *)
(*                                                                         *)
(* Python values are encoded as follows.                                   *)
(*   Optional[X]   None is <<>>, a present value x is <<x>>.               *)
(*   list          a sequence; Python index i is position i + 1.           *)
(*   dict          a function from its keys to its values.                 *)
(*   JSON value    a record tagged with its type (see JNull .. JObj).      *)
(***************************************************************************)
EXTENDS Integers, Sequences, FiniteSets, TLC

VARIABLES
    review,   \* the DocumentReview object under review
    call,     \* the last ReviewManager call made: its name and arguments
    ex,       \* the frame of a running analyze_responsiveness / analyze_exemptions
    val,      \* a result validator's argument and verdict
    session,  \* the ProcessingSession: its emails, reviews and analysis results
    page      \* the processing page of main.py: its loops and result lists

vars == <<review, call, ex, val, session, page>>

----------------------------------------------------------------------------
(* Bounds of the model.                                                    *)

\* len(cpra_requests): the number N of CPRA requests of the session.
NumRequests == 2

\* The largest retry_attempts a caller passes.
MaxAttempts == 3

----------------------------------------------------------------------------
(* Python's Optional and dict.                                             *)

None == <<>>

Some(x) == <<x>>

Val(o) == o[1]

EmptyDict == [k \in {} |-> FALSE]

\* d[k] = v
DictSet(d, k, v) == [x \in (DOMAIN d) \cup {k} |-> IF x = k THEN v ELSE d[x]]

\* Truth value of an Optional[dict]: None and {} are both false.
DictTruthy(o) == o # None /\ DOMAIN Val(o) # {}

----------------------------------------------------------------------------
(* utils/data_structures.py                                                *)

PENDING == "pending"

IN_PROGRESS == "in_progress"

COMPLETED == "completed"

ATTORNEY_CLIENT == "attorney_client"

PERSONNEL == "personnel"

DELIBERATIVE == "deliberative"

ExemptionType == {ATTORNEY_CLIENT, PERSONNEL, DELIBERATIVE}

\* datetime.now(): some instant; the model keeps no clock.
Now == "now"

\* ResponsivenessAnalysis: the field the review manager reads.
ResponsivenessAnalysis(responsive) == [responsive |-> responsive]

\* The reasoning the model gives for a category: some text, one per category.
ReasoningFor(exemption_type) == "model reasoning: " \o exemption_type

\* ExemptionAnalysis: the "applies" and "reasoning" entries of each of its
\* three dicts.
ExemptionAnalysis(ac, pe, de) ==
    [attorney_client |-> [applies |-> ac, reasoning |-> ReasoningFor("attorney_client")],
     personnel       |-> [applies |-> pe, reasoning |-> ReasoningFor("personnel")],
     deliberative    |-> [applies |-> de, reasoning |-> ReasoningFor("deliberative")]]

\* DocumentReview(email_id, review_status = PENDING): the dataclass defaults.
NewDocumentReview ==
    [user_responsive_override |-> None,
     user_exemption_override  |-> None,
     review_status            |-> PENDING,
     reviewed_by              |-> None,
     review_timestamp         |-> None,
     review_notes             |-> "",
     final_responsive         |-> <<>>,
     final_exemptions         |-> <<>>]

\* DocumentReview.mark_reviewed(reviewer)
mark_reviewed(r, reviewer) ==
    [r EXCEPT !.review_status    = COMPLETED,
              !.reviewed_by      = Some(reviewer),
              !.review_timestamp = Some(Now)]

----------------------------------------------------------------------------
(* Inputs of the review manager's operations.                              *)

BoolSeqs(n) == [1..n -> BOOLEAN]

\* Every responsiveness analysis over the session's N requests.
RespAnalyses == {ResponsivenessAnalysis(s) : s \in BoolSeqs(NumRequests)}

\* Every exemption analysis.
ExemptAnalyses ==
    {ExemptionAnalysis(a, p, d) : a \in BOOLEAN, p \in BOOLEAN, d \in BOOLEAN}

Opt(S) == {None} \cup {Some(x) : x \in S}

Reviewers == {"user", "alice"}

Notes == {"", "checked by counsel"}

\* The analyses of email_001 in tests/test_review_manager.py.
SampleRespAnalysis ==
    ResponsivenessAnalysis([i \in 1..NumRequests |-> i = 1])

SampleExemptAnalysis == ExemptionAnalysis(FALSE, FALSE, TRUE)

----------------------------------------------------------------------------
(* processors/review_manager.py                                            *)

NoCall ==
    [op |-> "none", responsiveness_analysis |-> None, exemption_analysis |-> None,
     notes |-> "", request_index |-> 0, exemption_type |-> "", user_decision |-> FALSE,
     reviewer |-> "", raised |-> FALSE, repeat |-> FALSE]

\* A start_review that sets the status and forgets the reviewer.
Started_ForgetsReviewer(r, reviewer) ==
    IF r.review_status = COMPLETED
    THEN r
    ELSE [r EXCEPT !.review_status = IN_PROGRESS]

\* A start_review without its guard: it reopens a COMPLETED review.
Started_ReopensCompleted(r, reviewer) ==
    [r EXCEPT !.review_status = IN_PROGRESS, !.reviewed_by = Some(reviewer)]

\* The review r after start_review(r, reviewer).
Started(r, reviewer) ==
    IF r.review_status = COMPLETED
    THEN r
    ELSE [r EXCEPT !.review_status = IN_PROGRESS,
                   !.reviewed_by   = Some(reviewer)]

\* start_review(review, reviewer)
start_review(reviewer) ==
    /\ review' = Started(review, reviewer)
    /\ call' = [NoCall EXCEPT !.op = "start_review", !.reviewer = reviewer]

\* responsiveness_analysis.responsive[request_index] raises AttributeError on
\* None and IndexError outside -N..N-1.
ResponsiveLookupRaises(analysis, request_index) ==
    \/ analysis = None
    \/ request_index >= Len(Val(analysis).responsive)
    \/ request_index < 0 - Len(Val(analysis).responsive)

\* An override that forgets the decisions recorded for the other requests.
WithResponsiveOverride_ForgetsOthers(r, request_index, user_decision) ==
    [r EXCEPT !.user_responsive_override =
                  Some(DictSet(EmptyDict, request_index, user_decision))]

\* apply_responsiveness_override(review, responsiveness_analysis, request_index,
\* user_decision): the override is stored before the original is looked up.
WithResponsiveOverride(r, request_index, user_decision) ==
    LET d == IF r.user_responsive_override = None
             THEN EmptyDict
             ELSE Val(r.user_responsive_override)
    IN  [r EXCEPT !.user_responsive_override =
                      Some(DictSet(d, request_index, user_decision))]

apply_responsiveness_override(analysis, request_index, user_decision) ==
    /\ review' = WithResponsiveOverride(review, request_index, user_decision)
    /\ call' = [NoCall EXCEPT !.op = "apply_responsiveness_override",
                              !.request_index = request_index,
                              !.user_decision = user_decision,
                              !.raised = ResponsiveLookupRaises(analysis, request_index)]

\* apply_exemption_override(review, exemption_analysis, exemption_type,
\* user_decision): exemption_analysis.<type>["applies"] raises on None.
WithExemptionOverride(r, exemption_type, user_decision) ==
    LET d == IF r.user_exemption_override = None
             THEN EmptyDict
             ELSE Val(r.user_exemption_override)
    IN  [r EXCEPT !.user_exemption_override =
                      Some(DictSet(d, exemption_type, user_decision))]

apply_exemption_override(analysis, exemption_type, user_decision) ==
    /\ review' = WithExemptionOverride(review, exemption_type, user_decision)
    /\ call' = [NoCall EXCEPT !.op = "apply_exemption_override",
                              !.exemption_type = exemption_type,
                              !.user_decision = user_decision,
                              !.raised = (analysis = None)]

\* A merge that copies the machine result and never reads the override.
MergeResponsive_IgnoresOverride(override, responsive, i) == responsive

\* The loop of finalize_review over enumerate(responsiveness_analysis.responsive).
RECURSIVE MergeResponsive(_, _, _)
MergeResponsive(override, responsive, i) ==
    IF i >= Len(responsive)
    THEN <<>>
    ELSE <<IF DictTruthy(override) /\ i \in DOMAIN Val(override)
           THEN Val(override)[i]
           ELSE responsive[i + 1]>>
         \o MergeResponsive(override, responsive, i + 1)

\* A merge in which an override can add a category but not remove one.
ExemptionApplies_OverrideOnlyAdds(override, analysis, exemption_type) ==
    \/ analysis[exemption_type].applies
    \/ /\ DictTruthy(override)
       /\ exemption_type \in DOMAIN Val(override)
       /\ Val(override)[exemption_type]

\* One of the three "Check ..." blocks of finalize_review.
ExemptionApplies(override, analysis, exemption_type) ==
    IF DictTruthy(override) /\ exemption_type \in DOMAIN Val(override)
    THEN Val(override)[exemption_type]
    ELSE analysis[exemption_type].applies

\* The three blocks in their order: attorney-client, personnel, deliberative.
MergeExemptions(override, analysis) ==
    (IF ExemptionApplies(override, analysis, ATTORNEY_CLIENT)
     THEN <<ATTORNEY_CLIENT>> ELSE <<>>)
    \o (IF ExemptionApplies(override, analysis, PERSONNEL)
        THEN <<PERSONNEL>> ELSE <<>>)
    \o (IF ExemptionApplies(override, analysis, DELIBERATIVE)
        THEN <<DELIBERATIVE>> ELSE <<>>)

\* A finalize_review that appends to the final lists it finds.
Finalized_Accumulates(r, responsiveness_analysis, exemption_analysis, notes) ==
    LET r1 == IF responsiveness_analysis # None
              THEN [r EXCEPT !.final_responsive =
                       MergeResponsive(r.user_responsive_override,
                                       Val(responsiveness_analysis).responsive, 0)]
              ELSE r
        r2 == IF exemption_analysis # None
              THEN [r1 EXCEPT !.final_exemptions =
                       @ \o MergeExemptions(r.user_exemption_override,
                                            Val(exemption_analysis))]
              ELSE r1
    IN  mark_reviewed(r2, IF r.reviewed_by = None THEN "user" ELSE Val(r.reviewed_by))

\* The review r after finalize_review(r, responsiveness_analysis,
\* exemption_analysis, notes).
Finalized(r, responsiveness_analysis, exemption_analysis, notes) ==
    LET r1 == IF responsiveness_analysis # None
              THEN [r EXCEPT !.final_responsive =
                       MergeResponsive(r.user_responsive_override,
                                       Val(responsiveness_analysis).responsive, 0)]
              ELSE r
        r2 == IF exemption_analysis # None
              THEN [r1 EXCEPT !.final_exemptions =
                       MergeExemptions(r.user_exemption_override,
                                       Val(exemption_analysis))]
              ELSE r1
        r3 == IF notes # "" THEN [r2 EXCEPT !.review_notes = notes] ELSE r2
    IN  mark_reviewed(r3, IF r.reviewed_by = None \/ Val(r.reviewed_by) = ""
                          THEN "user"
                          ELSE Val(r.reviewed_by))

\* finalize_review(review, responsiveness_analysis, exemption_analysis, notes);
\* "repeat" records that the call before it was a finalize_review with the
\* same arguments.
finalize_review(responsiveness_analysis, exemption_analysis, notes) ==
    /\ review' = Finalized(review, responsiveness_analysis, exemption_analysis, notes)
    /\ call' = [NoCall EXCEPT !.op = "finalize_review",
                              !.responsiveness_analysis = responsiveness_analysis,
                              !.exemption_analysis = exemption_analysis,
                              !.notes = notes,
                              !.repeat = /\ call.op = "finalize_review"
                                         /\ call.responsiveness_analysis =
                                                responsiveness_analysis
                                         /\ call.exemption_analysis = exemption_analysis
                                         /\ call.notes = notes]

----------------------------------------------------------------------------
(* The review of one document, its responsiveness side explored in full:   *)
(* every analysis over the N requests or none, every override of a request *)
(* index; the exemption analysis is the sample one or none.                *)

InitReview ==
    /\ review = NewDocumentReview
    /\ call = NoCall

StartReview ==
    /\ \E reviewer \in Reviewers : start_review(reviewer)
    /\ UNCHANGED <<ex, val, session, page>>

OverrideResponsiveness ==
    /\ \E i \in 0..(NumRequests - 1), d \in BOOLEAN :
           apply_responsiveness_override(Some(SampleRespAnalysis), i, d)
    /\ UNCHANGED <<ex, val, session, page>>

OverrideExemption ==
    /\ \E t \in ExemptionType, d \in BOOLEAN :
           apply_exemption_override(Some(SampleExemptAnalysis), t, d)
    /\ UNCHANGED <<ex, val, session, page>>

FinalizeResponsiveSide ==
    /\ \E ra \in Opt(RespAnalyses), ea \in Opt({SampleExemptAnalysis}), n \in Notes :
           finalize_review(ra, ea, n)
    /\ UNCHANGED <<ex, val, session, page>>

FinalizeExemptionSide ==
    /\ \E ra \in Opt({SampleRespAnalysis}), ea \in Opt(ExemptAnalyses), n \in Notes :
           finalize_review(ra, ea, n)
    /\ UNCHANGED <<ex, val, session, page>>

IdleReview == NewDocumentReview

IdleExecutor == [pc |-> "idle"]

IdleValidator == [pc |-> "idle"]

\* ProcessingSession(): no emails, no reviews and no results. An email is
\* its message_id, an Optional[str].
IdleSession ==
    [emails                 |-> <<>>,
     document_reviews       |-> EmptyDict,
     responsiveness_results |-> EmptyDict,
     exemption_results      |-> EmptyDict,
     out                    |-> None]

\* The processing page has not run.
IdlePage == [pc |-> "idle"]

InitResponsive ==
    /\ InitReview
    /\ ex = IdleExecutor
    /\ val = IdleValidator
    /\ session = IdleSession
    /\ page = IdlePage

NextResponsive ==
    \/ StartReview
    \/ OverrideResponsiveness
    \/ FinalizeResponsiveSide

SpecResponsive == InitResponsive /\ [][NextResponsive]_vars

(* The same review with its exemption side explored in full.               *)

NextExemption ==
    \/ StartReview
    \/ OverrideExemption
    \/ FinalizeExemptionSide

SpecExemption == InitResponsive /\ [][NextExemption]_vars

(* The same review under calls a caller can make in any order and with any *)
(* arguments: overrides with or without the analysis, for the first and    *)
(* the last request and for index N, one past the last; finalize_review    *)
(* with either of two analyses per side, or none.                          *)

\* The analyses the calls are made with.
CallRespAnalyses == {None, Some(SampleRespAnalysis),
                     Some(ResponsivenessAnalysis([i \in 1..NumRequests |-> FALSE]))}

CallExemptAnalyses == {None, Some(SampleExemptAnalysis),
                       Some(ExemptionAnalysis(TRUE, FALSE, FALSE))}

OverrideAnyRequest ==
    /\ \E ra \in {None, Some(SampleRespAnalysis)},
          i \in {0, NumRequests - 1, NumRequests}, d \in BOOLEAN :
           apply_responsiveness_override(ra, i, d)
    /\ UNCHANGED <<ex, val, session, page>>

OverrideAnyCategory ==
    /\ \E ea \in {None, Some(SampleExemptAnalysis)},
          t \in {ATTORNEY_CLIENT, DELIBERATIVE}, d \in BOOLEAN :
           apply_exemption_override(ea, t, d)
    /\ UNCHANGED <<ex, val, session, page>>

FinalizeAny ==
    /\ \E ra \in CallRespAnalyses, ea \in CallExemptAnalyses :
           finalize_review(ra, ea, "")
    /\ UNCHANGED <<ex, val, session, page>>

NextCalls ==
    \/ StartReview
    \/ OverrideAnyRequest
    \/ OverrideAnyCategory
    \/ FinalizeAny

SpecCalls == InitResponsive /\ [][NextCalls]_vars

----------------------------------------------------------------------------
(* A session of two emails without message ids: initialize_reviews names   *)
(* them email_0 and email_1. Its analysis results are fixed when the       *)
(* reviews begin; the callers hand each operation the results the session  *)
(* holds for the email, None where it holds none.                          *)

EmailIds == {"email_0", "email_1"}

\* str(i) of a small index.
Str(i) == <<"0", "1", "2", "3", "4", "5", "6", "7", "8", "9">>[i + 1]

\* email.message_id if email.message_id else f"email_{i}": None and "" are
\* both false.
email_id(message_id, i) ==
    IF message_id # None /\ Val(message_id) # ""
    THEN Val(message_id)
    ELSE "email_" \o Str(i)

\* The identity of the k-th email of the session (Python index k - 1).
EmailIdAt(s, k) == email_id(s.emails[k], k - 1)

\* The keys of the dict initialize_reviews builds, in insertion order: the
\* identities in the order of session.emails, each at its first occurrence.
EmailOrder(s) ==
    LET first == {k \in 1..Len(s.emails) :
                     \A j \in 1..(k - 1) : EmailIdAt(s, j) # EmailIdAt(s, k)}
        RECURSIVE From(_)
        From(k) == IF k > Len(s.emails) THEN <<>>
                   ELSE (IF k \in first THEN <<EmailIdAt(s, k)>> ELSE <<>>)
                        \o From(k + 1)
    IN  From(1)

\* Two emails without message ids.
PlainEmails == <<None, None>>

\* dict.get(k)
DictGet(d, k) == IF k \in DOMAIN d THEN Some(d[k]) ELSE None

BatchNotes == "Batch approved - AI determinations accepted"

\* An initialize_reviews that makes a new review for every email.
initialize_reviews_Recreates(s) ==
    [s EXCEPT !.document_reviews =
                  [e \in {EmailIdAt(s, k) : k \in 1..Len(s.emails)} |->
                      NewDocumentReview],
              !.out = None]

\* initialize_reviews(session): an existing review is kept, a missing one is
\* created PENDING.
initialize_reviews(s) ==
    [s EXCEPT !.document_reviews =
                  [e \in {EmailIdAt(s, k) : k \in 1..Len(s.emails)} |->
                      IF e \in DOMAIN s.document_reviews
                      THEN s.document_reviews[e]
                      ELSE NewDocumentReview],
              !.out = None]

\* The reviews batch_approve_ai_determinations starts and finalizes.
NotCompleted(s) ==
    {e \in DOMAIN s.document_reviews :
        s.document_reviews[e].review_status # COMPLETED}

\* batch_approve_ai_determinations(session, reviewer); out is approved_count.
batch_approve_ai_determinations(s, reviewer) ==
    [s EXCEPT !.document_reviews =
                  [e \in DOMAIN s.document_reviews |->
                      IF e \in NotCompleted(s)
                      THEN Finalized(Started(s.document_reviews[e], reviewer),
                                     DictGet(s.responsiveness_results, e),
                                     DictGet(s.exemption_results, e),
                                     BatchNotes)
                      ELSE s.document_reviews[e]],
              !.out = Some(Cardinality(NotCompleted(s)))]

\* The sessions reviews begin with: email_0 analysed in full, email_1 with
\* both analyses, the responsiveness analysis alone, or none.
AnalysedSessions ==
    {[IdleSession EXCEPT !.emails = PlainEmails,
                         !.responsiveness_results = [e \in R |-> SampleRespAnalysis],
                         !.exemption_results = [e \in E |-> SampleExemptAnalysis]] :
        R \in {{"email_0"}, EmailIds}, E \in {{"email_0"}, EmailIds}}

InitSession ==
    /\ review = IdleReview
    /\ call = NoCall
    /\ ex = IdleExecutor
    /\ val = IdleValidator
    /\ page = IdlePage
    /\ session \in AnalysedSessions

InitializeReviews ==
    /\ session' = initialize_reviews(session)
    /\ call' = [NoCall EXCEPT !.op = "initialize_reviews"]
    /\ UNCHANGED <<review, ex, val, page>>

\* start_review is called with a named reviewer; "user" is the name
\* finalize_review falls back to when none is on record.
SessionStartReview ==
    /\ \E e \in DOMAIN session.document_reviews, reviewer \in Reviewers \ {"user"} :
           /\ session' = [session EXCEPT !.document_reviews[e] = Started(@, reviewer),
                                         !.out = None]
           /\ call' = [NoCall EXCEPT !.op = "start_review", !.reviewer = reviewer]
    /\ UNCHANGED <<review, ex, val, page>>

SessionOverrideResponsiveness ==
    /\ \E e \in DOMAIN session.document_reviews, d \in BOOLEAN :
           /\ session' = [session EXCEPT
                             !.document_reviews[e] = WithResponsiveOverride(@, 0, d),
                             !.out = None]
           /\ call' = [NoCall EXCEPT
                          !.op = "apply_responsiveness_override",
                          !.user_decision = d,
                          !.raised = ResponsiveLookupRaises(
                                         DictGet(session.responsiveness_results, e), 0)]
    /\ UNCHANGED <<review, ex, val, page>>

SessionOverrideExemption ==
    /\ \E e \in DOMAIN session.document_reviews, d \in BOOLEAN :
           /\ session' = [session EXCEPT
                             !.document_reviews[e] =
                                 WithExemptionOverride(@, DELIBERATIVE, d),
                             !.out = None]
           /\ call' = [NoCall EXCEPT
                          !.op = "apply_exemption_override",
                          !.exemption_type = DELIBERATIVE,
                          !.user_decision = d,
                          !.raised = (DictGet(session.exemption_results, e) = None)]
    /\ UNCHANGED <<review, ex, val, page>>

SessionFinalize ==
    /\ \E e \in DOMAIN session.document_reviews :
           session' = [session EXCEPT
                         !.document_reviews[e] =
                             Finalized(@, DictGet(session.responsiveness_results, e),
                                       DictGet(session.exemption_results, e), ""),
                         !.out = None]
    /\ call' = [NoCall EXCEPT !.op = "finalize_review"]
    /\ UNCHANGED <<review, ex, val, page>>

BatchApprove ==
    /\ \E reviewer \in Reviewers :
           /\ session' = batch_approve_ai_determinations(session, reviewer)
           /\ call' = [NoCall EXCEPT !.op = "batch_approve_ai_determinations",
                                     !.reviewer = reviewer]
    /\ UNCHANGED <<review, ex, val, page>>

NextSession ==
    \/ InitializeReviews
    \/ SessionStartReview
    \/ SessionOverrideResponsiveness
    \/ SessionOverrideExemption
    \/ SessionFinalize
    \/ BatchApprove

SpecSession == InitSession /\ [][NextSession]_vars

----------------------------------------------------------------------------
(* generate_audit_trail as a function of the session: the session is drawn *)
(* from states the review operations reach, and the trail is computed.     *)

\* f"request_{req_idx}"
RequestKey(req_idx) == <<"request", req_idx>>

\* A record that reports every override with a machine value as changed.
AuditRecord_AlwaysChanged(original, decision) ==
    [original |-> original,
     override |-> decision,
     changed  |-> IF original # None THEN Some(TRUE) ELSE None]

\* {"original": original, "override": decision,
\*  "changed": original != decision if original is not None else None}
AuditRecord(original, decision) ==
    [original |-> original,
     override |-> decision,
     changed  |-> IF original # None THEN Some(Val(original) # decision) ELSE None]

\* session.responsiveness_results[email_id].responsive[req_idx] raises
\* IndexError for an index beyond the analysis.
AuditLookupRaises(s, e) ==
    /\ DictTruthy(s.document_reviews[e].user_responsive_override)
    /\ e \in DOMAIN s.responsiveness_results
    /\ \E i \in DOMAIN Val(s.document_reviews[e].user_responsive_override) :
           i >= Len(s.responsiveness_results[e].responsive)

\* The "overrides" of one entry.
AuditOverrides(s, e) ==
    LET r  == s.document_reviews[e]
        ro == IF DictTruthy(r.user_responsive_override)
              THEN Val(r.user_responsive_override) ELSE EmptyDict
        eo == IF DictTruthy(r.user_exemption_override)
              THEN Val(r.user_exemption_override) ELSE EmptyDict
    IN  [responsiveness |->
             [k \in {RequestKey(i) : i \in DOMAIN ro} |->
                 AuditRecord(IF e \in DOMAIN s.responsiveness_results
                             THEN Some(s.responsiveness_results[e].responsive[k[2] + 1])
                             ELSE None,
                             ro[k[2]])],
         exemptions |->
             [t \in DOMAIN eo |->
                 AuditRecord(IF e \in DOMAIN s.exemption_results /\ t \in ExemptionType
                             THEN Some(s.exemption_results[e][t].applies)
                             ELSE None,
                             eo[t])]]

\* One entry of the audit trail.
AuditEntry(s, e) ==
    [email_id         |-> e,
     reviewer         |-> s.document_reviews[e].reviewed_by,
     review_timestamp |-> IF s.document_reviews[e].review_timestamp = None
                          THEN None
                          ELSE Some(<<"isoformat",
                                      Val(s.document_reviews[e].review_timestamp)>>),
     status           |-> s.document_reviews[e].review_status,
     overrides        |-> AuditOverrides(s, e),
     notes            |-> s.document_reviews[e].review_notes]

\* The loop over session.document_reviews.items(), from its k-th item on.
RECURSIVE AuditFrom(_, _)
AuditFrom(s, k) ==
    IF k > Len(EmailOrder(s))
    THEN <<>>
    ELSE (IF /\ EmailOrder(s)[k] \in DOMAIN s.document_reviews
             /\ s.document_reviews[EmailOrder(s)[k]].review_status = COMPLETED
          THEN <<AuditEntry(s, EmailOrder(s)[k])>>
          ELSE <<>>)
         \o AuditFrom(s, k + 1)

\* generate_audit_trail(session): the trail, or the IndexError of a lookup.
generate_audit_trail(s) ==
    IF \E e \in DOMAIN s.document_reviews :
           s.document_reviews[e].review_status = COMPLETED /\ AuditLookupRaises(s, e)
    THEN [raised |-> TRUE, trail |-> <<>>]
    ELSE [raised |-> FALSE, trail |-> AuditFrom(s, 1)]

\* The override maps apply_responsiveness_override builds over the requests.
ResponsiveOverrides ==
    {None} \cup
    {Some(f) : f \in UNION {[K -> BOOLEAN] :
                              K \in (SUBSET (0..(NumRequests - 1))) \ {{}}}}

\* The override maps apply_exemption_override builds.
ExemptionOverrides ==
    {None} \cup
    {Some(f) : f \in UNION {[K -> BOOLEAN] : K \in (SUBSET ExemptionType) \ {{}}}}

\* The review of email e after the overrides were applied and the review was
\* left alone, started, or started and finalized with the session's results.
ReviewAt(s, e, status, ro, eo) ==
    LET r == [NewDocumentReview EXCEPT !.user_responsive_override = ro,
                                       !.user_exemption_override = eo]
    IN  CASE status = PENDING     -> r
          [] status = IN_PROGRESS -> Started(r, "alice")
          [] status = COMPLETED   ->
                 Finalized(Started(r, "alice"),
                           DictGet(s.responsiveness_results, e),
                           DictGet(s.exemption_results, e), "")

ReviewStatus == {PENDING, IN_PROGRESS, COMPLETED}

\* One email's review is drawn in full, the other's with no override or with
\* one of each kind.
InitAudit ==
    /\ review = IdleReview
    /\ call = NoCall
    /\ ex = IdleExecutor
    /\ val = IdleValidator
    /\ page = IdlePage
    /\ \E s \in AnalysedSessions, e \in EmailIds, st \in ReviewStatus,
          ro \in ResponsiveOverrides, eo \in ExemptionOverrides,
          st2 \in ReviewStatus, plain \in BOOLEAN :
           LET e2 == CHOOSE x \in EmailIds : x # e
               r2 == IF plain
                     THEN ReviewAt(s, e2, st2, None, None)
                     ELSE ReviewAt(s, e2, st2, Some(DictSet(EmptyDict, 0, TRUE)),
                                   Some(DictSet(EmptyDict, PERSONNEL, FALSE)))
           IN  session = [s EXCEPT !.document_reviews =
                             [x \in EmailIds |->
                                 IF x = e THEN ReviewAt(s, e, st, ro, eo) ELSE r2]]

GenerateAuditTrail ==
    /\ call.op = "none"
    /\ session' = [session EXCEPT !.out = Some(generate_audit_trail(session))]
    /\ call' = [NoCall EXCEPT !.op = "generate_audit_trail"]
    /\ UNCHANGED <<review, ex, val, page>>

NextAudit == GenerateAuditTrail

SpecAudit == InitAudit /\ [][NextAudit]_vars

----------------------------------------------------------------------------
(* get_review_summary as a function of the session: sessions of up to      *)
(* MaxEmails emails are drawn, before and after initialize_reviews, with   *)
(* reviews in states the review operations reach.                          *)

\* The largest number of emails of a summarised session.
MaxEmails == 4

RECURSIVE SumSeq(_)
SumSeq(numbers) ==
    IF numbers = <<>> THEN 0 ELSE Head(numbers) + SumSeq(Tail(numbers))

\* reviews.values(), in the order of the dict.
ReviewValues(s) ==
    LET keys == SelectSeq(EmailOrder(s), LAMBDA e : e \in DOMAIN s.document_reviews)
    IN  [k \in 1..Len(keys) |-> s.document_reviews[keys[k]]]

\* sum(1 for r in reviews.values() if r.review_status == status)
StatusCount(s, status) ==
    SumSeq([k \in 1..Len(ReviewValues(s)) |->
               IF ReviewValues(s)[k].review_status = status THEN 1 ELSE 0])

\* A count of the reviews that hold overrides, not of the overrides.
OverrideCount_PerReview(override) == IF DictTruthy(override) THEN 1 ELSE 0

\* "if review.user_..._override: count += len(review.user_..._override)"
OverrideCount(override) ==
    IF DictTruthy(override) THEN Cardinality(DOMAIN Val(override)) ELSE 0

RECURSIVE GCD(_, _)
GCD(a, b) == IF b = 0 THEN a ELSE GCD(b, a % b)

\* A quotient of naturals kept exact, as a fraction in lowest terms; the
\* rounding of a float's last place is not modelled.
Fraction(n, d) == [num |-> n \div GCD(n, d), den |-> d \div GCD(n, d)]

\* (completed_count / total_documents * 100) if total_documents > 0 else 0
CompletionPercentage(completed_count, total_documents) ==
    IF total_documents > 0
    THEN LET q == Fraction(completed_count, total_documents)
         IN  Fraction(q.num * 100, q.den)
    ELSE Fraction(0, 1)

\* The "reviewers" dict: completed reviews per reviewer on record.
ReviewerCounts(s) ==
    LET done == {k \in 1..Len(ReviewValues(s)) :
                    /\ ReviewValues(s)[k].review_status = COMPLETED
                    /\ ReviewValues(s)[k].reviewed_by # None
                    /\ Val(ReviewValues(s)[k].reviewed_by) # ""}
    IN  [who \in {Val(ReviewValues(s)[k].reviewed_by) : k \in done} |->
            Cardinality({k \in done : Val(ReviewValues(s)[k].reviewed_by) = who})]

\* get_review_summary(session)
get_review_summary(s) ==
    LET total_documents   == Len(s.emails)
        completed_count   == StatusCount(s, COMPLETED)
        responsiveness_overrides ==
            SumSeq([k \in 1..Len(ReviewValues(s)) |->
                       OverrideCount(ReviewValues(s)[k].user_responsive_override)])
        exemption_overrides ==
            SumSeq([k \in 1..Len(ReviewValues(s)) |->
                       OverrideCount(ReviewValues(s)[k].user_exemption_override)])
    IN  [total_documents       |-> total_documents,
         review_status         |-> [pending     |-> StatusCount(s, PENDING),
                                    in_progress |-> StatusCount(s, IN_PROGRESS),
                                    completed   |-> completed_count],
         overrides             |-> [responsiveness |-> responsiveness_overrides,
                                    exemptions     |-> exemption_overrides,
                                    total          |-> responsiveness_overrides
                                                       + exemption_overrides],
         completion_percentage |-> CompletionPercentage(completed_count, total_documents),
         reviewers             |-> ReviewerCounts(s)]

\* A session of n emails without message ids, each analysed.
SummarisedSession(n) ==
    [IdleSession EXCEPT
        !.emails = [k \in 1..n |-> None],
        !.responsiveness_results =
            [e \in {"email_" \o Str(k - 1) : k \in 1..n} |-> SampleRespAnalysis],
        !.exemption_results =
            [e \in {"email_" \o Str(k - 1) : k \in 1..n} |-> SampleExemptAnalysis]]

\* The overrides of a drawn review: none, one responsiveness override, or
\* two responsiveness overrides and an exemption override.
SummaryOverrides ==
    {<<None, None>>,
     <<Some(DictSet(EmptyDict, 0, TRUE)), None>>,
     <<Some(DictSet(DictSet(EmptyDict, 0, TRUE), 1, FALSE)),
       Some(DictSet(EmptyDict, PERSONNEL, FALSE))>>}

InitSummary ==
    /\ review = IdleReview
    /\ call = NoCall
    /\ ex = IdleExecutor
    /\ val = IdleValidator
    /\ page = IdlePage
    /\ \E n \in 0..MaxEmails, initialized \in BOOLEAN :
           LET s == SummarisedSession(n)
           IN  IF initialized
               THEN \E st \in [DOMAIN s.responsiveness_results -> ReviewStatus],
                       ov \in [DOMAIN s.responsiveness_results -> SummaryOverrides] :
                        session = [s EXCEPT !.document_reviews =
                                      [e \in DOMAIN s.responsiveness_results |->
                                          ReviewAt(s, e, st[e], ov[e][1], ov[e][2])]]
               ELSE session = s

GetReviewSummary ==
    /\ call.op = "none"
    /\ session' = [session EXCEPT !.out = Some(get_review_summary(session))]
    /\ call' = [NoCall EXCEPT !.op = "get_review_summary"]
    /\ UNCHANGED <<review, ex, val, page>>

NextSummary == GetReviewSummary

SpecSummary == InitSummary /\ [][NextSummary]_vars

----------------------------------------------------------------------------
(* processors/export_manager.py: the production set and the privilege log  *)
(* as functions of the session. An email is named by its Python index.     *)

\* "if review.final_responsive: ... is_responsive = any(review.final_responsive)"
IsResponsive(r) == \E i \in 1..Len(r.final_responsive) : r.final_responsive[i]

\* len(review.final_exemptions) > 0 if review.final_exemptions else False
HasExemptions(r) == Len(r.final_exemptions) > 0

\* The review the export reads for the email at index i: the loops skip an
\* email without a review or whose review is not COMPLETED.
ExportedReview(s, i) ==
    LET review_ == DictGet(s.document_reviews, EmailIdAt(s, i + 1))
    IN  IF review_ # None /\ Val(review_).review_status = COMPLETED
        THEN review_
        ELSE None

\* range(len(session.emails)) as a list.
Indices(s) == [k \in 1..Len(s.emails) |-> k - 1]

\* A production test that forgets the exemptions.
ProducibleTest_IgnoresExemptions(r) == IsResponsive(r)

\* "if is_responsive and not is_fully_exempt"
ProducibleTest(r) == IsResponsive(r) /\ ~HasExemptions(r)

\* _get_producible_documents(session): the emails to produce, in order.
_get_producible_documents(s) ==
    SelectSeq(Indices(s),
              LAMBDA i : /\ ExportedReview(s, i) # None
                         /\ ProducibleTest(Val(ExportedReview(s, i))))

\* _get_exemption_reasoning(exemptions, analysis): a dict of category ->
\* reasoning, empty when there is no analysis.
_get_exemption_reasoning(exemptions, analysis) ==
    IF analysis = None
    THEN [t \in {} |-> ""]
    ELSE [t \in {exemptions[k] : k \in 1..Len(exemptions)} |->
             Val(analysis)[t].reasoning]

NonResponsiveReason == "Document not responsive to CPRA request"

\* One entry of the list _get_withheld_documents builds.
WithheldEntry(s, i) ==
    LET r         == Val(ExportedReview(s, i))
        reasoning == _get_exemption_reasoning(
                         r.final_exemptions,
                         DictGet(s.exemption_results, EmailIdAt(s, i + 1)))
    IN  [email      |-> i,
         email_id   |-> EmailIdAt(s, i + 1),
         responsive |-> IsResponsive(r),
         exemptions |-> r.final_exemptions,
         reasoning  |-> IF IsResponsive(r)
                        THEN reasoning
                        ELSE [t \in (DOMAIN reasoning) \cup {"non_responsive"} |->
                                 IF t = "non_responsive"
                                 THEN NonResponsiveReason
                                 ELSE reasoning[t]]]

\* _get_withheld_documents(session): the entries of the privilege log.
_get_withheld_documents(s) ==
    LET withheld == SelectSeq(Indices(s),
                        LAMBDA i : /\ ExportedReview(s, i) # None
                                   /\ \/ HasExemptions(Val(ExportedReview(s, i)))
                                      \/ ~IsResponsive(Val(ExportedReview(s, i))))
    IN  [k \in 1..Len(withheld) |-> WithheldEntry(s, withheld[k])]

\* generate_exports(session): validate_export_readiness refuses a session
\* without emails or without reviews; otherwise the production PDF is made
\* of the producible documents and the privilege log of the withheld ones.
generate_exports(s) ==
    IF Len(s.emails) = 0 \/ DOMAIN s.document_reviews = {}
    THEN [raised |-> TRUE, production |-> <<>>, privilege_log |-> <<>>]
    ELSE [raised        |-> FALSE,
          production    |-> _get_producible_documents(s),
          privilege_log |-> _get_withheld_documents(s)]

----------------------------------------------------------------------------
(* main.py: the processing page runs the responsiveness loop over all      *)
(* emails, then the exemption loop, then stores the results in the session *)
(* and initializes the reviews; the review page and the export page follow. *)

\* The uploaded emails, each with the Message-ID header the parser hands
\* through or with none: without message ids, with one, with distinct ones,
\* and two emails carrying the same Message-ID header.
EmailLists ==
    {PlainEmails,
     <<Some("<m1@city.gov>"), None>>,
     <<Some("<m1@city.gov>"), Some("<m2@city.gov>")>>,
     <<Some("<m1@city.gov>"), Some("<m1@city.gov>")>>}

NotResponsiveAnalysis ==
    ResponsivenessAnalysis([i \in 1..NumRequests |-> FALSE])

\* What analyze_email_responsiveness hands the page: an analysis, or None
\* (also appended when the call raises).
ResponsivenessOutcomes ==
    {None, Some(NotResponsiveAnalysis), Some(SampleRespAnalysis)}

\* What analyze_email_exemptions hands the page.
ExemptionOutcomes ==
    {None, Some(ExemptionAnalysis(FALSE, FALSE, FALSE)), Some(SampleExemptAnalysis)}

\* ResponsivenessAnalysis.is_responsive_to_any()
is_responsive_to_any(analysis) ==
    \E i \in 1..Len(analysis.responsive) : analysis.responsive[i]

\* The three exemption checkboxes of the review form as the reviewer leaves
\* them: none ticked, or one of two categories ticked.
ExemptionTicks ==
    {[t \in ExemptionType |-> t = ticked] : ticked \in {"", ATTORNEY_CLIENT, DELIBERATIVE}}

\* A gate that lets every analysed email through.
ExemptionGate_AnyAnalysis(result) == result # None

\* "if responsiveness_results[i] and responsiveness_results[i].is_responsive_to_any()"
ExemptionGate(result) == result # None /\ is_responsive_to_any(Val(result))

\* "for i, result in enumerate(results): if result: session_map[str(i)] = result"
StoredResults(results) ==
    [key \in {Str(k - 1) : k \in {j \in 1..Len(results) : results[j] # None}} |->
        Val(results[CHOOSE k \in 1..Len(results) : Str(k - 1) = key])]

\* The review page's "Save Review" for the email at current_idx: the review
\* is created if missing and started if PENDING, the one responsiveness
\* checkbox is recorded for every request of the analysis (if there is one),
\* the three exemption checkboxes replace the exemption overrides, and the
\* review is finalized with the page's results for the email.
SaveReview(s, current_idx, responsiveness, exemptions, is_responsive, exemption_overrides) ==
    LET id      == EmailIdAt(s, current_idx + 1)
        current == IF id \in DOMAIN s.document_reviews
                   THEN s.document_reviews[id]
                   ELSE NewDocumentReview
        started == IF current.review_status = PENDING
                   THEN Started(current, "user")
                   ELSE current
        old     == IF started.user_responsive_override = None
                   THEN EmptyDict
                   ELSE Val(started.user_responsive_override)
        n       == Len(Val(responsiveness).responsive)
        decided == IF responsiveness # None
                   THEN [started EXCEPT !.user_responsive_override =
                            Some([i \in (DOMAIN old) \cup (0..(n - 1)) |->
                                     IF i \in 0..(n - 1) THEN is_responsive ELSE old[i]])]
                   ELSE started
        exempted == [decided EXCEPT !.user_exemption_override = Some(exemption_overrides)]
    IN  [s EXCEPT !.document_reviews =
                      DictSet(@, id, Finalized(exempted, responsiveness, exemptions, "")),
                  !.out = None]

ProcessingStarts ==
    [pc |-> "responsiveness", i |-> 0, responsiveness_results |-> <<>>,
     exemption_results |-> <<>>, exemption_calls |-> <<>>]

InitPage ==
    /\ review = IdleReview
    /\ call = NoCall
    /\ ex = IdleExecutor
    /\ val = IdleValidator
    /\ page = ProcessingStarts
    /\ \E emails \in EmailLists : session = [IdleSession EXCEPT !.emails = emails]

\* One iteration of the responsiveness loop.
AnalyzeResponsiveness ==
    /\ page.pc = "responsiveness"
    /\ page.i < Len(session.emails)
    /\ \E result \in ResponsivenessOutcomes :
           page' = [page EXCEPT !.responsiveness_results = Append(@, result),
                                !.i = @ + 1]
    /\ UNCHANGED <<review, call, ex, val, session>>

\* The responsiveness loop is over; the exemption loop begins.
StartExemptions ==
    /\ page.pc = "responsiveness"
    /\ page.i >= Len(session.emails)
    /\ page' = [page EXCEPT !.pc = "exemptions", !.i = 0]
    /\ UNCHANGED <<review, call, ex, val, session>>

\* One iteration of the exemption loop: the classifier is called for an email
\* that passes the gate, None is appended for any other.
AnalyzeExemptions ==
    /\ page.pc = "exemptions"
    /\ page.i < Len(session.emails)
    /\ IF ExemptionGate(page.responsiveness_results[page.i + 1])
       THEN \E result \in ExemptionOutcomes :
                page' = [page EXCEPT !.exemption_results = Append(@, result),
                                     !.exemption_calls = Append(@, page.i),
                                     !.i = @ + 1]
       ELSE page' = [page EXCEPT !.exemption_results = Append(@, None),
                                 !.i = @ + 1]
    /\ UNCHANGED <<review, call, ex, val, session>>

\* The exemption loop is over: the results are stored in the session under
\* str(i) and the reviews are initialized.
StoreResults ==
    /\ page.pc = "exemptions"
    /\ page.i >= Len(session.emails)
    /\ session' = initialize_reviews(
                      [session EXCEPT
                          !.responsiveness_results =
                              StoredResults(page.responsiveness_results),
                          !.exemption_results =
                              StoredResults(page.exemption_results)])
    /\ page' = [page EXCEPT !.pc = "complete"]
    /\ call' = [NoCall EXCEPT !.op = "initialize_reviews"]
    /\ UNCHANGED <<review, ex, val>>

\* The reviewer saves the review form of an email.
PageSaveReview ==
    /\ page.pc = "complete"
    /\ \E idx \in 0..(Len(session.emails) - 1), is_responsive \in BOOLEAN,
          exemption_overrides \in ExemptionTicks :
           session' = SaveReview(session, idx,
                                 page.responsiveness_results[idx + 1],
                                 page.exemption_results[idx + 1],
                                 is_responsive, exemption_overrides)
    /\ call' = [NoCall EXCEPT !.op = "finalize_review"]
    /\ UNCHANGED <<review, ex, val, page>>

\* The determinations are batch approved.
PageBatchApprove ==
    /\ page.pc = "complete"
    /\ \E reviewer \in Reviewers :
           /\ session' = batch_approve_ai_determinations(session, reviewer)
           /\ call' = [NoCall EXCEPT !.op = "batch_approve_ai_determinations",
                                     !.reviewer = reviewer]
    /\ UNCHANGED <<review, ex, val, page>>

\* The audit trail of the session is generated.
PageAuditTrail ==
    /\ page.pc = "complete"
    /\ session' = [session EXCEPT !.out = Some(generate_audit_trail(session))]
    /\ call' = [NoCall EXCEPT !.op = "generate_audit_trail"]
    /\ UNCHANGED <<review, ex, val, page>>

\* The export page generates the production set and the privilege log.
PageExports ==
    /\ page.pc = "complete"
    /\ session' = [session EXCEPT !.out = Some(generate_exports(session))]
    /\ call' = [NoCall EXCEPT !.op = "generate_exports"]
    /\ UNCHANGED <<review, ex, val, page>>

NextPage ==
    \/ AnalyzeResponsiveness
    \/ StartExemptions
    \/ AnalyzeExemptions
    \/ StoreResults
    \/ PageSaveReview
    \/ PageBatchApprove
    \/ PageAuditTrail
    \/ PageExports

SpecPage == InitPage /\ [][NextPage]_vars

----------------------------------------------------------------------------
(* Parsed JSON values, as json.loads returns them.                         *)

JNull == [t |-> "null"]

JBool(b) == [t |-> "bool", b |-> b]

JNum(n) == [t |-> "num", n |-> n]

JStr(s) == [t |-> "str", s |-> s]

JList(seq) == [t |-> "list", items |-> seq]

JObj(f) == [t |-> "obj", fields |-> f]

\* Whether len(j) is defined (otherwise it raises TypeError).
Sized(j) == j.t \in {"list", "obj", "str"}

\* len(j)
PyLen(j) ==
    CASE j.t = "list" -> Len(j.items)
      [] j.t = "obj"  -> Cardinality(DOMAIN j.fields)
      [] j.t = "str"  -> Len(j.s)

\* What "for x in j" yields: a list's elements, a dict's keys, a string's
\* characters (strings of length 1, none of them a confidence word).
Items(j) ==
    CASE j.t = "list" -> {j.items[i] : i \in 1..Len(j.items)}
      [] j.t = "obj"  -> {JStr(k) : k \in DOMAIN j.fields}
      [] j.t = "str"  -> IF j.s = "" THEN {} ELSE {JStr("?")}

\* str.lower() on the strings of the model.
Lower(s) ==
    CASE s = "HIGH"   -> "high"
      [] s = "High"   -> "high"
      [] s = "MEDIUM" -> "medium"
      [] s = "Medium" -> "medium"
      [] s = "LOW"    -> "low"
      [] s = "Low"    -> "low"
      [] OTHER        -> s

----------------------------------------------------------------------------
(* models/ollama_client.py: the result validators. Any exception raised    *)
(* inside a validator is caught there and makes it return False.           *)

valid_confidence == {"high", "medium", "low"}

required_keys == {"responsive", "confidence", "reasoning"}

required_exemptions == {"attorney_client", "personnel", "deliberative"}

required_fields == {"applies", "confidence", "reasoning"}

\* A length check that leaves the reasoning array out.
ArrayLengthsMatch_SkipsReasoning(responsive, confidence, reasoning, expected_length) ==
    /\ Sized(responsive)
    /\ Sized(confidence)
    /\ Sized(reasoning)
    /\ PyLen(responsive) = PyLen(confidence)
    /\ PyLen(confidence) = expected_length

\* len(responsive) == len(confidence) == len(reasoning) == expected_length
ArrayLengthsMatch(responsive, confidence, reasoning, expected_length) ==
    /\ Sized(responsive)
    /\ Sized(confidence)
    /\ PyLen(responsive) = PyLen(confidence)
    /\ Sized(reasoning)
    /\ PyLen(confidence) = PyLen(reasoning)
    /\ PyLen(reasoning) = expected_length

\* c.lower() in valid_confidence; c.lower() raises unless c is a string.
ConfidenceValid(c) == c.t = "str" /\ Lower(c.s) \in valid_confidence

\* _validate_responsiveness_result(result, expected_length)
_validate_responsiveness_result(result, expected_length) ==
    /\ result.t = "obj"
    /\ required_keys \subseteq DOMAIN result.fields
    /\ ArrayLengthsMatch(result.fields["responsive"], result.fields["confidence"],
                         result.fields["reasoning"], expected_length)
    /\ \A r \in Items(result.fields["responsive"]) : r.t = "bool"
    /\ \A c \in Items(result.fields["confidence"]) : ConfidenceValid(c)
    /\ \A r \in Items(result.fields["reasoning"]) : r.t = "str"

\* A presence check with any() in place of all().
RequiredExemptionsPresent_Any(exemptions) ==
    /\ exemptions.t = "obj"
    /\ required_exemptions \cap DOMAIN exemptions.fields # {}

\* all(exemption in exemptions for exemption in required_exemptions), followed
\* by exemptions.items(), which only a dict has.
RequiredExemptionsPresent(exemptions) ==
    /\ exemptions.t = "obj"
    /\ required_exemptions \subseteq DOMAIN exemptions.fields

\* A check of one exemption_data that leaves the type of "applies" out.
ExemptionDataValid_SkipsApplies(exemption_data) ==
    /\ exemption_data.t = "obj"
    /\ required_fields \subseteq DOMAIN exemption_data.fields
    /\ exemption_data.fields["confidence"].t = "str"
    /\ Lower(exemption_data.fields["confidence"].s) \in valid_confidence
    /\ exemption_data.fields["reasoning"].t = "str"

\* The checks of one exemption_data in the loop over exemptions.items().
ExemptionDataValid(exemption_data) ==
    /\ exemption_data.t = "obj"
    /\ required_fields \subseteq DOMAIN exemption_data.fields
    /\ exemption_data.fields["applies"].t = "bool"
    /\ ConfidenceValid(exemption_data.fields["confidence"])
    /\ exemption_data.fields["reasoning"].t = "str"

\* _validate_exemption_result(result)
_validate_exemption_result(result) ==
    /\ result.t = "obj"
    /\ "exemptions" \in DOMAIN result.fields
    /\ RequiredExemptionsPresent(result.fields["exemptions"])
    /\ \A exemption_type \in DOMAIN result.fields["exemptions"].fields :
           \/ exemption_type \notin required_exemptions
           \/ ExemptionDataValid(result.fields["exemptions"].fields[exemption_type])

----------------------------------------------------------------------------
(* Payloads handed to the validators.                                      *)

\* The longest array of a payload: one longer than the most requests.
MaxArrayLen == NumRequests + 1

ConfidenceWords == <<"high", "MEDIUM", "Low">>

ResponsiveArray(n) == JList([i \in 1..n |-> JBool(i % 2 = 1)])

ConfidenceArray(n) == JList([i \in 1..n |-> JStr(ConfidenceWords[(i % 3) + 1])])

ReasoningArray(n) == JList([i \in 1..n |-> JStr("because")])

\* The list with its last element replaced by x.
WithLast(list, x) == JList([list.items EXCEPT ![Len(list.items)] = x])

ResponsiveValues ==
    {ResponsiveArray(n) : n \in 0..MaxArrayLen}
    \cup {WithLast(ResponsiveArray(n), JStr("true")) : n \in 1..MaxArrayLen}
    \cup {JNull}

ConfidenceValues ==
    {ConfidenceArray(n) : n \in 0..MaxArrayLen}
    \cup {WithLast(ConfidenceArray(n), JStr("unsure")) : n \in 1..MaxArrayLen}
    \cup {WithLast(ConfidenceArray(n), JNum(1)) : n \in 1..MaxArrayLen}
    \cup {JObj([high |-> JNum(1), low |-> JNum(2)])}

ReasoningValues ==
    {ReasoningArray(n) : n \in 0..MaxArrayLen}
    \cup {WithLast(ReasoningArray(n), JNum(0)) : n \in 1..MaxArrayLen}
    \cup {JStr("ok")}

ResponsivenessPayload(responsive, confidence, reasoning) ==
    JObj([responsive |-> responsive, confidence |-> confidence,
          reasoning |-> reasoning])

ResponsivenessPayloads ==
    {ResponsivenessPayload(r, c, s) :
        r \in ResponsiveValues, c \in ConfidenceValues, s \in ReasoningValues}
    \cup {JObj([responsive |-> ResponsiveArray(n), confidence |-> ConfidenceArray(n)]) :
             n \in 1..NumRequests}
    \cup {JObj([responsive |-> ResponsiveArray(n), reasoning |-> ReasoningArray(n)]) :
             n \in 1..NumRequests}
    \cup {JObj([confidence |-> ConfidenceArray(n), reasoning |-> ReasoningArray(n)]) :
             n \in 1..NumRequests}
    \cup {JList(<<JStr("responsive"), JStr("confidence"), JStr("reasoning")>>), JNull}

ExemptionData(applies, confidence, reasoning) ==
    JObj([applies |-> applies, confidence |-> confidence, reasoning |-> reasoning])

ExemptionDataValues ==
    {ExemptionData(JBool(TRUE), JStr("high"), JStr("because")),
     ExemptionData(JBool(FALSE), JStr("LOW"), JStr("")),
     ExemptionData(JStr("yes"), JStr("high"), JStr("because")),
     ExemptionData(JBool(TRUE), JStr("unsure"), JStr("because")),
     ExemptionData(JBool(TRUE), JNum(1), JStr("because")),
     ExemptionData(JBool(TRUE), JStr("medium"), JNull),
     JObj([confidence |-> JStr("high"), reasoning |-> JStr("because")]),
     JObj([applies |-> JBool(TRUE), reasoning |-> JStr("because")]),
     JObj([applies |-> JBool(TRUE), confidence |-> JStr("high")]),
     JList(<<JStr("applies"), JStr("confidence"), JStr("reasoning")>>),
     JNull}

\* A category no schema names.
ExtraCategory == "trade_secret"

ExtraDataValues == {ExemptionData(JBool(TRUE), JStr("high"), JStr("because")), JNull}

\* Every exemptions object over a subset of the three categories, and each
\* of them with the extra category added.
ExemptionObjects ==
    LET base == UNION {[K -> ExemptionDataValues] : K \in SUBSET required_exemptions}
    IN  base \cup {DictSet(f, ExtraCategory, x) : f \in base, x \in ExtraDataValues}

ExemptionPayloads ==
    {JObj([exemptions |-> JObj(f)]) : f \in ExemptionObjects}
    \cup {JObj([result |-> JObj(f)]) : f \in [required_exemptions -> {ExemptionData(JBool(TRUE), JStr("high"), JStr("because"))}]}
    \cup {JObj([exemptions |-> JList(<<JStr("attorney_client"), JStr("personnel"), JStr("deliberative")>>)]),
          JObj([exemptions |-> JNull]),
          JList(<<JStr("exemptions")>>)}

----------------------------------------------------------------------------
(* Model output as text: a sequence of lexical units. A payload unit       *)
(* stands for the members of one JSON object, written between braces.      *)

\* A run of three backquotes.
FENCE == "fence"

NL == "\n"

SP == " "

LBRACE == "{"

RBRACE == "}"

\* Prose holding no brace, no backtick and no line break.
WORD == "text"

\* Brackets nested deeper than the interpreter's recursion limit.
DEEP == "[[[[...]]]]"

Whitespace == {SP, NL}

\* The members of a valid responsiveness payload for n requests.
RESP_OK == "resp_ok"

\* The same with a confidence array one element short.
RESP_SHORT == "resp_short"

\* The members of a valid exemption payload.
EX_OK == "ex_ok"

\* The same without the deliberative category.
EX_TWO == "ex_two"

PayloadUnits == {RESP_OK, RESP_SHORT, EX_OK, EX_TWO}

GoodExemptionData == ExemptionData(JBool(TRUE), JStr("high"), JStr("because"))

\* The JSON object a payload unit denotes, the session having n requests.
PayloadOf(unit, n) ==
    CASE unit = RESP_OK ->
             ResponsivenessPayload(ResponsiveArray(n), ConfidenceArray(n),
                                   ReasoningArray(n))
      [] unit = RESP_SHORT ->
             ResponsivenessPayload(ResponsiveArray(n), ConfidenceArray(n - 1),
                                   ReasoningArray(n))
      [] unit = EX_OK ->
             JObj([exemptions |->
                      JObj([c \in required_exemptions |-> GoodExemptionData])])
      [] unit = EX_TWO ->
             JObj([exemptions |->
                      JObj([c \in {"attorney_client", "personnel"} |->
                               GoodExemptionData])])

RECURSIVE LStrip(_)
LStrip(s) ==
    IF s # <<>> /\ Head(s) \in Whitespace THEN LStrip(Tail(s)) ELSE s

RECURSIVE RStrip(_)
RStrip(s) ==
    IF s # <<>> /\ s[Len(s)] \in Whitespace
    THEN RStrip(SubSeq(s, 1, Len(s) - 1))
    ELSE s

\* str.strip()
Strip(s) == RStrip(LStrip(s))

\* s.startswith(FENCE)
StartsWithFence(s) == s # <<>> /\ Head(s) = FENCE

\* s.find(unit) and s.rfind(unit): a Python index, or -1.
Find(s, unit) ==
    IF \E i \in 1..Len(s) : s[i] = unit
    THEN (CHOOSE i \in 1..Len(s) :
              s[i] = unit /\ \A j \in 1..(i - 1) : s[j] # unit) - 1
    ELSE 0 - 1

RFind(s, unit) ==
    IF \E i \in 1..Len(s) : s[i] = unit
    THEN (CHOOSE i \in 1..Len(s) :
              s[i] = unit /\ \A j \in (i + 1)..Len(s) : s[j] # unit) - 1
    ELSE 0 - 1

\* s.split('\n')
RECURSIVE SplitLines(_)
SplitLines(s) ==
    LET i == Find(s, NL)
    IN  IF i < 0
        THEN <<s>>
        ELSE <<SubSeq(s, 1, i)>> \o SplitLines(SubSeq(s, i + 2, Len(s)))

\* '\n'.join(lines)
RECURSIVE JoinLines(_)
JoinLines(lines) ==
    IF Len(lines) = 0 THEN <<>>
    ELSE IF Len(lines) = 1 THEN lines[1]
    ELSE lines[1] \o <<NL>> \o JoinLines(Tail(lines))

\* The loop of _extract_json_from_response over the lines of a response
\* that starts with a fence: the lines after the first fence line and before
\* the next one.
RECURSIVE FencedLines(_, _)
FencedLines(lines, in_json) ==
    IF Len(lines) = 0 THEN <<>>
    ELSE IF StartsWithFence(Strip(Head(lines)))
         THEN IF in_json THEN <<>> ELSE FencedLines(Tail(lines), TRUE)
         ELSE IF in_json
              THEN <<Head(lines)>> \o FencedLines(Tail(lines), TRUE)
              ELSE FencedLines(Tail(lines), FALSE)

\* _extract_json_from_response(response)
_extract_json_from_response(response) ==
    IF response = <<>> THEN response
    ELSE IF StartsWithFence(Strip(response))
    THEN JoinLines(FencedLines(SplitLines(Strip(response)), FALSE))
    ELSE LET start == Find(response, LBRACE)
             end   == RFind(response, RBRACE) + 1
         IN  IF start >= 0 /\ end > start
             THEN SubSeq(response, start + 1, end)
             ELSE response

NotWhitespace(unit) == unit \notin Whitespace

\* json.loads(text): the parsed value, a JSONDecodeError, or the
\* RecursionError of a too deeply nested document. Whitespace between the
\* units of a document is insignificant.
json_loads(text, n) ==
    LET s == SelectSeq(text, NotWhitespace)
    IN  IF Len(s) = 3 /\ s[1] = LBRACE /\ s[2] \in PayloadUnits /\ s[3] = RBRACE
        THEN [status |-> "ok", value |-> PayloadOf(s[2], n)]
        ELSE IF s = <<LBRACE, RBRACE>>
        THEN [status |-> "ok", value |-> JObj(EmptyDict)]
        ELSE IF s # <<>> /\ s[1] = DEEP
        THEN [status |-> "RecursionError", value |-> JNull]
        ELSE [status |-> "JSONDecodeError", value |-> JNull]

(* _extract_json_from_response as a function of the raw text: every text   *)
(* of up to MaxText units.                                                 *)

\* The longest raw text.
MaxText == 6

TextUnits == {FENCE, NL, LBRACE, RBRACE, WORD}

RawTexts == UNION {[1..n -> TextUnits] : n \in 0..MaxText}

InitExtractor ==
    /\ review = IdleReview
    /\ call = NoCall
    /\ val = IdleValidator
    /\ session = IdleSession
    /\ page = IdlePage
    /\ \E response \in RawTexts :
           ex = [pc |-> "raw", response |-> response, out |-> <<>>]

ExtractJson ==
    /\ ex.pc = "raw"
    /\ ex' = [ex EXCEPT !.pc = "extracted",
                        !.out = _extract_json_from_response(ex.response)]
    /\ UNCHANGED <<review, call, val, session, page>>

NextExtractor == ExtractJson

SpecExtractor == InitExtractor /\ [][NextExtractor]_vars

----------------------------------------------------------------------------
(* models/ollama_client.py: generate_structured_response and the retry     *)
(* loops of analyze_responsiveness and analyze_exemptions.                 *)

\* What the model may answer to one chat call.
ModelContents ==
    {<<>>,
     <<SP, NL>>,
     <<LBRACE, RESP_OK, RBRACE>>,
     <<FENCE, WORD, NL, LBRACE, RESP_OK, RBRACE, NL, FENCE>>,
     <<WORD, LBRACE, RESP_SHORT, RBRACE, NL>>,
     <<LBRACE, EX_OK, RBRACE>>,
     <<WORD, SP, LBRACE, EX_TWO, RBRACE>>,
     <<FENCE, NL, FENCE>>,
     <<WORD>>,
     <<DEEP>>}

\* self.client.chat(...): it raises (None) or returns content.
ChatOutcomes == Opt(ModelContents)

\* generate_structured_response: None when the chat raised, else the
\* stripped content.
generate_structured_response(chat) ==
    IF chat = None THEN None ELSE Some(Strip(Val(chat)))

\* The validator each analysis applies.
Validate(task, result, n) ==
    IF task = "responsiveness"
    THEN _validate_responsiveness_result(result, n)
    ELSE _validate_exemption_result(result)

Outcome(kind, result) == [kind |-> kind, result |-> result]

\* The body of one iteration of the retry loop, up to its verdict on the
\* response: which branch it takes and, if valid, the parsed result.
AttemptOutcome(task, chat, n) ==
    LET response == generate_structured_response(chat)
    IN  IF response = None \/ Val(response) = <<>>
        THEN Outcome("no_response", None)
        ELSE LET json_content == _extract_json_from_response(Val(response))
             IN  IF json_content = <<>> \/ Strip(json_content) = <<>>
                 THEN Outcome("empty_json", None)
                 ELSE LET parsed == json_loads(json_content, n)
                      IN  IF parsed.status = "JSONDecodeError"
                          THEN Outcome("json_decode_error", None)
                          ELSE IF parsed.status # "ok"
                          THEN Outcome("exception", None)
                          ELSE IF Validate(task, parsed.value, n)
                          THEN Outcome("valid", Some(parsed.value))
                          ELSE Outcome("invalid", None)

\* A loop that treats a validator rejection like "except Exception".
Continues_NotAfterRejection(kind, attempt, retry_attempts) ==
    /\ kind \in {"no_response", "empty_json", "json_decode_error"}
    /\ attempt < retry_attempts - 1

\* A loop whose success branch lacks its return.
Continues_AfterValid(kind, attempt, retry_attempts) ==
    /\ kind \in {"no_response", "empty_json", "invalid", "json_decode_error", "valid"}
    /\ attempt < retry_attempts - 1

\* Whether the iteration ends in "continue": the four retried branches test
\* attempt < retry_attempts - 1; "except Exception" returns None at once.
Continues(kind, attempt, retry_attempts) ==
    /\ kind \in {"no_response", "empty_json", "invalid", "json_decode_error"}
    /\ attempt < retry_attempts - 1

\* A loop over range(retry_attempts + 1).
InRange_OneMore(attempt, retry_attempts) == attempt <= retry_attempts

\* "for attempt in range(retry_attempts)": the loop has an iteration left.
InRange(attempt, retry_attempts) == attempt < retry_attempts

\* analyze_responsiveness / analyze_exemptions are called.
InitExecutor ==
    /\ review = IdleReview
    /\ call = NoCall
    /\ val = IdleValidator
    /\ session = IdleSession
    /\ page = IdlePage
    /\ \E task \in {"responsiveness", "exemptions"}, k \in 0..MaxAttempts :
           ex = [pc |-> "loop", task |-> task, retry_attempts |-> k,
                 attempt |-> 0, calls |-> 0, outputs |-> <<>>, result |-> None]

\* One iteration of "for attempt in range(retry_attempts)".
Attempt ==
    /\ ex.pc = "loop"
    /\ InRange(ex.attempt, ex.retry_attempts)
    /\ \E chat \in ChatOutcomes :
           LET o == AttemptOutcome(ex.task, chat, NumRequests)
           IN  ex' = IF Continues(o.kind, ex.attempt, ex.retry_attempts)
                     THEN [ex EXCEPT !.calls = @ + 1,
                                     !.outputs = Append(@, chat),
                                     !.attempt = @ + 1]
                     ELSE [ex EXCEPT !.calls = @ + 1,
                                     !.outputs = Append(@, chat),
                                     !.pc = "returned",
                                     !.result = o.result]
    /\ UNCHANGED <<review, call, val, session, page>>

\* The loop is over: the "return None" after it.
LoopExhausted ==
    /\ ex.pc = "loop"
    /\ ~InRange(ex.attempt, ex.retry_attempts)
    /\ ex' = [ex EXCEPT !.pc = "returned", !.result = None]
    /\ UNCHANGED <<review, call, val, session, page>>

NextExecutor ==
    \/ Attempt
    \/ LoopExhausted

SpecExecutor == InitExecutor /\ [][NextExecutor]_vars

\* The same calls when every iteration that is due takes place: the loop
\* runs in one thread and each gateway call returns or raises.
SpecExecutorLive == SpecExecutor /\ WF_vars(NextExecutor)

----------------------------------------------------------------------------
(* The validators as pure functions: a payload and an expected length are  *)
(* drawn, and either validator is applied to them.                         *)

InitValidator ==
    /\ review = IdleReview
    /\ call = NoCall
    /\ ex = IdleExecutor
    /\ session = IdleSession
    /\ page = IdlePage
    /\ \E result \in ResponsivenessPayloads \cup ExemptionPayloads,
          expected_length \in 1..NumRequests :
           val = [pc |-> "input", validator |-> "", result |-> result,
                  expected_length |-> expected_length, verdict |-> FALSE]

ValidateResponsiveness ==
    /\ val.pc = "input"
    /\ val' = [val EXCEPT !.pc = "done",
                          !.validator = "responsiveness",
                          !.verdict = _validate_responsiveness_result(
                                          val.result, val.expected_length)]
    /\ UNCHANGED <<review, call, ex, session, page>>

ValidateExemption ==
    /\ val.pc = "input"
    /\ val' = [val EXCEPT !.pc = "done",
                          !.validator = "exemption",
                          !.verdict = _validate_exemption_result(val.result)]
    /\ UNCHANGED <<review, call, ex, session, page>>

NextValidator ==
    \/ ValidateResponsiveness
    \/ ValidateExemption

SpecValidator == InitValidator /\ [][NextValidator]_vars

----------------------------------------------------------------------------
(* processors/cpra_analyzer.py: analyze_email_responsiveness and its       *)
(* parser as functions of what the client hands back. Both run inside      *)
(* "try: ... except Exception: return None".                               *)

\* What "for x in j" yields, in order: a list's elements, a dict's keys, a
\* string's characters.
RECURSIVE KeySeq(_)
KeySeq(keys) ==
    IF keys = {} THEN <<>>
    ELSE LET k == CHOOSE x \in keys : TRUE
         IN  <<JStr(k)>> \o KeySeq(keys \ {k})

ItemSeq(j) ==
    CASE j.t = "list" -> j.items
      [] j.t = "obj"  -> KeySeq(DOMAIN j.fields)
      [] j.t = "str"  -> [i \in 1..Len(j.s) |-> JStr("?")]

\* Truth value of what the client returned: None and {} are false.
Truthy(j) ==
    CASE j.t = "null" -> FALSE
      [] j.t = "bool" -> j.b
      [] j.t = "num"  -> j.n # 0
      [] OTHER        -> PyLen(j) > 0

\* all(key in analysis_result for key in ['responsive', 'confidence',
\* 'reasoning']): key membership in a dict, element membership in a list.
HasRequiredFields(analysis_result) ==
    CASE analysis_result.t = "obj" -> required_keys \subseteq DOMAIN analysis_result.fields
      [] analysis_result.t = "list" ->
             \A key \in required_keys : JStr(key) \in Items(analysis_result)
      [] OTHER -> FALSE

\* A length check that leaves the confidence array out.
ParsedLengthsMatch_SkipsConfidence(responsive, confidence_raw, reasoning, n) ==
    PyLen(responsive) = PyLen(reasoning) /\ PyLen(reasoning) = n

\* len(responsive) == len(confidence_raw) == len(reasoning) == len(cpra_requests)
ParsedLengthsMatch(responsive, confidence_raw, reasoning, n) ==
    /\ PyLen(responsive) = PyLen(confidence_raw)
    /\ PyLen(confidence_raw) = PyLen(reasoning)
    /\ PyLen(reasoning) = n

\* A conversion that compares the word as spelled, without lower().
ParsedConfidence_CaseSensitive(conf) ==
    IF conf.s \in valid_confidence THEN conf.s ELSE "low"

\* ConfidenceLevel(conf.lower()), LOW on ValueError.
ParsedConfidence(conf) ==
    IF Lower(conf.s) \in valid_confidence THEN Lower(conf.s) ELSE "low"

\* The body of _parse_responsiveness_result: the analysis it builds, None,
\* or the exception it raises (TypeError for "in" or len() or a subscript on
\* a value without them, AttributeError for .lower() on a non-string).
ParseBody(email_id_, n, analysis_result) ==
    LET exception == [kind |-> "exception", analysis |-> None]
        nothing   == [kind |-> "return", analysis |-> None]
    IN  IF analysis_result.t \notin {"obj", "list", "str"} THEN exception
        ELSE IF ~HasRequiredFields(analysis_result) THEN nothing
        ELSE IF analysis_result.t # "obj" THEN exception
        ELSE LET responsive     == analysis_result.fields["responsive"]
                 confidence_raw == analysis_result.fields["confidence"]
                 reasoning      == analysis_result.fields["reasoning"]
             IN  IF ~(Sized(responsive) /\ Sized(confidence_raw) /\ Sized(reasoning))
                 THEN exception
                 ELSE IF ~ParsedLengthsMatch(responsive, confidence_raw, reasoning, n)
                 THEN nothing
                 ELSE IF \E k \in 1..Len(ItemSeq(confidence_raw)) :
                             ItemSeq(confidence_raw)[k].t # "str"
                 THEN exception
                 ELSE [kind     |-> "return",
                       analysis |-> Some(
                           [email_id      |-> email_id_,
                            cpra_requests |-> n,
                            responsive    |-> responsive,
                            confidence    |-> [k \in 1..Len(ItemSeq(confidence_raw)) |->
                                                  ParsedConfidence(ItemSeq(confidence_raw)[k])],
                            reasoning     |-> reasoning])]

\* _parse_responsiveness_result(email_id, cpra_requests, analysis_result, ...):
\* an exception of the body is caught and None returned.
_parse_responsiveness_result(email_id_, n, analysis_result) ==
    ParseBody(email_id_, n, analysis_result).analysis

\* analyze_email_responsiveness(email, cpra_requests, email_index), given
\* what ollama_client.analyze_responsiveness returns: the identity is
\* message_id or f"email_{email_index or 0}"; nothing raised inside reaches
\* the caller.
analyze_email_responsiveness(message_id, email_index, n, analysis_result) ==
    LET id == email_id(message_id, IF email_index = None THEN 0 ELSE Val(email_index))
    IN  [raised |-> FALSE,
         result |-> IF ~Truthy(analysis_result)
                    THEN None
                    ELSE _parse_responsiveness_result(id, n, analysis_result)]

\* What the client hands back: None, {} and every payload of the validator's
\* inputs.
ClientResults ==
    ResponsivenessPayloads \cup {JObj([k \in {} |-> JNull])}

InitAnalyzer ==
    /\ review = IdleReview
    /\ call = NoCall
    /\ ex = IdleExecutor
    /\ session = IdleSession
    /\ page = IdlePage
    /\ \E analysis_result \in ClientResults, n \in 1..NumRequests,
          message_id \in {None, Some("<m1@city.gov>")}, email_index \in {None, Some(1)} :
           val = [pc |-> "input", analysis_result |-> analysis_result,
                  cpra_requests |-> n, message_id |-> message_id,
                  email_index |-> email_index, out |-> None]

AnalyzeEmailResponsiveness ==
    /\ val.pc = "input"
    /\ val' = [val EXCEPT !.pc = "done",
                          !.out = Some(analyze_email_responsiveness(
                                           val.message_id, val.email_index,
                                           val.cpra_requests, val.analysis_result))]
    /\ UNCHANGED <<review, call, ex, session, page>>

NextAnalyzer == AnalyzeEmailResponsiveness

SpecAnalyzer == InitAnalyzer /\ [][NextAnalyzer]_vars

----------------------------------------------------------------------------
(* processors/cpra_analyzer.py: analyze_batch_responsiveness, one loop     *)
(* iteration per step. The batch record holds the arguments, the loop      *)
(* index, the results dict, the ProcessingStats counters and the calls     *)
(* made so far, in order.                                                  *)

\* The most emails of a batch.
MaxBatch == 3

\* ResponsivenessAnalysis.is_responsive_to_any() on the parsed payload:
\* any(self.responsive).
IsResponsiveToAny(analysis) ==
    \E k \in 1..Len(ItemSeq(analysis.responsive)) : Truthy(ItemSeq(analysis.responsive)[k])

\* What the client hands back for one email of a batch of NumRequests
\* requests: nothing, a payload responsive to the first request, a payload
\* responsive to none, a payload one element short.
BatchClientResults ==
    {JNull,
     ResponsivenessPayload(ResponsiveArray(NumRequests), ConfidenceArray(NumRequests),
                           ReasoningArray(NumRequests)),
     ResponsivenessPayload(JList([k \in 1..NumRequests |-> JBool(FALSE)]),
                           ConfidenceArray(NumRequests), ReasoningArray(NumRequests)),
     ResponsivenessPayload(ResponsiveArray(NumRequests - 1),
                           ConfidenceArray(NumRequests - 1),
                           ReasoningArray(NumRequests - 1))}

\* The progress callbacks: none supplied, or one that raises at the indices of
\* a set (at no index, or at one).
ProgressCallbacks(n) ==
    {None, Some({})} \cup {Some({k}) : k \in 0..(n - 1)}

ProgressCall(i, total, email) ==
    [op |-> "progress_callback", i |-> i, total |-> total, email |-> email]

AnalyzeCall(i, total, email) ==
    [op |-> "analyze_email_responsiveness", i |-> i, total |-> total, email |-> email]

\* The body of "for i, email in enumerate(emails)": the callback if one is
\* given, the analysis, the bookkeeping; an exception of the callback is
\* caught by the body's own except clause, which counts an error and goes on
\* to the next email.
BatchBody(b) ==
    LET i     == b.i
        email == b.emails[i + 1]
        total == Len(b.emails)
        called == b.progress_callback # None
        raises == called /\ i \in Val(b.progress_callback)
        progress == IF called THEN <<ProgressCall(i, total, email)>> ELSE <<>>
        analysis == analyze_email_responsiveness(email, Some(i), NumRequests,
                                                 b.client[i + 1]).result
    IN  IF raises
        THEN [b EXCEPT !.i = i + 1,
                       !.calls = @ \o progress,
                       !.stats.analysis_errors = @ + 1]
        ELSE IF analysis # None
        THEN [b EXCEPT !.i = i + 1,
                       !.calls = @ \o progress \o <<AnalyzeCall(i, total, email)>>,
                       !.results = DictSet(@, email_id(email, i), Val(analysis)),
                       !.stats.responsive_emails =
                           IF IsResponsiveToAny(Val(analysis)) THEN @ + 1 ELSE @,
                       !.stats.processed_emails = @ + 1]
        ELSE [b EXCEPT !.i = i + 1,
                       !.calls = @ \o progress \o <<AnalyzeCall(i, total, email)>>,
                       !.stats.analysis_errors = @ + 1,
                       !.stats.processed_emails = @ + 1]

\* ProcessingStats(total_emails=len(emails), start_time=...)
ProcessingStats(total_emails) ==
    [total_emails |-> total_emails, processed_emails |-> 0,
     responsive_emails |-> 0, analysis_errors |-> 0]

InitBatch ==
    /\ review = IdleReview
    /\ call = NoCall
    /\ ex = IdleExecutor
    /\ session = IdleSession
    /\ page = IdlePage
    /\ \E n \in 0..MaxBatch :
       \E emails \in [1..n -> {None, Some("<m1@city.gov>")}],
          client \in [1..n -> BatchClientResults],
          progress_callback \in ProgressCallbacks(n) :
           val = [pc |-> "batch", emails |-> emails, client |-> client,
                  progress_callback |-> progress_callback, i |-> 0,
                  results |-> EmptyDict, stats |-> ProcessingStats(n),
                  calls |-> <<>>]

\* One iteration of the loop.
BatchIteration ==
    /\ val.pc = "batch"
    /\ val.i < Len(val.emails)
    /\ val' = BatchBody(val)
    /\ UNCHANGED <<review, call, ex, session, page>>

\* return results, stats
BatchReturn ==
    /\ val.pc = "batch"
    /\ val.i >= Len(val.emails)
    /\ val' = [val EXCEPT !.pc = "batch_returned"]
    /\ UNCHANGED <<review, call, ex, session, page>>

NextBatch ==
    \/ BatchIteration
    \/ BatchReturn

SpecBatch == InitBatch /\ [][NextBatch]_vars

----------------------------------------------------------------------------
(* Properties of finalize_review.                                          *)

Range(seq) == {seq[i] : i \in 1..Len(seq)}

\* The override of key k, if the map holds one.
HasOverride(override, k) == override # None /\ k \in DOMAIN Val(override)

FinalizedWithResponsiveness ==
    call.op = "finalize_review" /\ call.responsiveness_analysis # None

FinalizedWithoutResponsiveness ==
    call.op = "finalize_review" /\ call.responsiveness_analysis = None

FinalizedWithExemptions ==
    call.op = "finalize_review" /\ call.exemption_analysis # None

FinalizedWithoutExemptions ==
    call.op = "finalize_review" /\ call.exemption_analysis = None

\* C1: after finalize_review with a responsiveness analysis over N requests,
\* final_responsive has exactly N entries and entry i is the reviewer's
\* override for i where the override map has one, the analysis's
\* responsive[i] otherwise.
C1_OverridePrecedence ==
    FinalizedWithResponsiveness =>
        LET machine  == Val(call.responsiveness_analysis).responsive
            override == review.user_responsive_override
        IN  /\ Len(review.final_responsive) = NumRequests
            /\ \A i \in 0..(NumRequests - 1) :
                   /\ review.final_responsive[i + 1] \in BOOLEAN
                   /\ review.final_responsive[i + 1] =
                          IF HasOverride(override, i)
                          THEN Val(override)[i]
                          ELSE machine[i + 1]

\* C1 witness: the machine found requests 0 and 1 responsive, the reviewer
\* overrode request 0 alone to false; request 0 is final false, request 1
\* final true.
C1_Witness ==
    /\ FinalizedWithResponsiveness
    /\ Val(call.responsiveness_analysis).responsive[1]
    /\ Val(call.responsiveness_analysis).responsive[2]
    /\ HasOverride(review.user_responsive_override, 0)
    /\ ~Val(review.user_responsive_override)[0]
    /\ ~HasOverride(review.user_responsive_override, 1)
    /\ ~review.final_responsive[1]
    /\ review.final_responsive[2]

\* C2: after finalize_review with no responsiveness analysis,
\* final_responsive still has a value for every request index: the override
\* where the map has one, false otherwise.
C2_DefaultsWithoutAnalysis ==
    FinalizedWithoutResponsiveness =>
        /\ Len(review.final_responsive) = NumRequests
        /\ \A i \in 0..(NumRequests - 1) :
               review.final_responsive[i + 1] =
                   IF HasOverride(review.user_responsive_override, i)
                   THEN Val(review.user_responsive_override)[i]
                   ELSE FALSE

\* C3: after finalize_review with an exemption analysis, final_exemptions is
\* exactly the set of categories whose override is true where the override
\* map has an entry, or whose analysis applies where it has none.
C3_ExemptionMerge ==
    FinalizedWithExemptions =>
        LET machine  == Val(call.exemption_analysis)
            override == review.user_exemption_override
        IN  /\ Range(review.final_exemptions) =
                   {c \in ExemptionType :
                       IF HasOverride(override, c)
                       THEN Val(override)[c]
                       ELSE machine[c].applies}
            /\ Len(review.final_exemptions) =
                   Cardinality(Range(review.final_exemptions))

\* C3 witness: the machine applied deliberative and not attorney_client, the
\* reviewer overrode deliberative to false and attorney_client to true; the
\* final exemptions hold attorney_client and not deliberative.
C3_Witness ==
    /\ FinalizedWithExemptions
    /\ Val(call.exemption_analysis)[DELIBERATIVE].applies
    /\ ~Val(call.exemption_analysis)[ATTORNEY_CLIENT].applies
    /\ HasOverride(review.user_exemption_override, DELIBERATIVE)
    /\ ~Val(review.user_exemption_override)[DELIBERATIVE]
    /\ HasOverride(review.user_exemption_override, ATTORNEY_CLIENT)
    /\ Val(review.user_exemption_override)[ATTORNEY_CLIENT]
    /\ ~HasOverride(review.user_exemption_override, PERSONNEL)
    /\ Range(review.final_exemptions) = {ATTORNEY_CLIENT}

\* C4: after finalize_review with no exemption analysis but with exemption
\* overrides, final_exemptions is exactly the categories whose override is
\* true.
C4_OverridesWithoutAnalysis ==
    (FinalizedWithoutExemptions /\ DictTruthy(review.user_exemption_override)) =>
        Range(review.final_exemptions) =
            {c \in ExemptionType :
                /\ HasOverride(review.user_exemption_override, c)
                /\ Val(review.user_exemption_override)[c]}

\* C5: after finalize_review with no exemption analysis and no exemption
\* override, final_exemptions is empty, whatever was done to the review
\* before.
C5_ExemptionDefault ==
    (FinalizedWithoutExemptions /\ ~DictTruthy(review.user_exemption_override)) =>
        review.final_exemptions = <<>>

----------------------------------------------------------------------------
(* Properties of the retry loop.                                           *)

\* The branch the i-th attempt of the running call took.
KindOfAttempt(i) == AttemptOutcome(ex.task, ex.outputs[i], NumRequests).kind

Returned == ex.pc = "returned"

\* C6: when the validator rejects the output of every attempt and the
\* attempt limit is k, the gateway is invoked exactly k times and the call
\* then returns None.
C6_ExactlyKCalls ==
    (Returned /\ \A i \in 1..Len(ex.outputs) : KindOfAttempt(i) = "invalid") =>
        /\ ex.calls = ex.retry_attempts
        /\ Len(ex.outputs) = ex.retry_attempts
        /\ ex.result = None

\* C6 witness: a call with a limit of at least 3 has returned after the
\* validator rejected every one of its outputs.
C6_Witness ==
    /\ Returned
    /\ ex.retry_attempts >= 3
    /\ ex.calls = ex.retry_attempts
    /\ \A i \in 1..Len(ex.outputs) : KindOfAttempt(i) = "invalid"

\* C7: the call returns the parsed payload of the first attempt whose output
\* passes extraction, parsing and validation; no gateway call follows a
\* passing attempt, and the payload is that of the passing output alone.
C7_FirstValidReturned ==
    ex.pc \in {"loop", "returned"} =>
        LET n == Len(ex.outputs)
        IN  /\ ex.calls = n
            /\ \A i \in 1..(n - 1) : KindOfAttempt(i) # "valid"
            /\ (n > 0 /\ KindOfAttempt(n) = "valid") =>
                   /\ Returned
                   /\ ex.result =
                          Some(json_loads(_extract_json_from_response(
                                              Strip(Val(ex.outputs[n]))),
                                          NumRequests).value)
            /\ (Returned /\ ex.result # None) =>
                   (n > 0 /\ KindOfAttempt(n) = "valid")

\* C7 witness: with a limit of 3 the second attempt passed after a rejected
\* first one, and the call returned its payload after 2 gateway calls.
C7_Witness ==
    /\ Returned
    /\ ex.retry_attempts = 3
    /\ ex.calls = 2
    /\ KindOfAttempt(1) = "invalid"
    /\ KindOfAttempt(2) = "valid"
    /\ ex.result # None

\* C8: an attempt that fails for any reason is followed by a further attempt
\* while fewer than retry_attempts attempts have been made: None is returned
\* only after retry_attempts attempts.
C8_EveryFailureRetried ==
    (Returned /\ ex.result = None) => ex.calls = ex.retry_attempts

----------------------------------------------------------------------------
(* Properties of the validators.                                           *)

ValidatedBy(validator) == val.pc = "done" /\ val.validator = validator

\* The categories of the exemptions object of an accepted payload.
CategoriesOf(result) == DOMAIN result.fields["exemptions"].fields

C10_ArrayLengths ==
    (ValidatedBy("responsiveness") /\ val.verdict) =>
        /\ PyLen(val.result.fields["responsive"]) = val.expected_length
        /\ PyLen(val.result.fields["confidence"]) = val.expected_length
        /\ PyLen(val.result.fields["reasoning"]) = val.expected_length

\* C10 witness: a payload of three arrays of N >= 2 elements has been
\* accepted.
C10_Witness ==
    /\ ValidatedBy("responsiveness")
    /\ val.verdict
    /\ val.expected_length >= 2
    /\ val.result.fields["reasoning"].t = "list"

\* Whether x[i] is defined for a Python index i >= 0: a list or a string
\* long enough; a JSON object has string keys only, so x[i] raises KeyError.
Subscriptable(x, i) ==
    \/ x.t = "list" /\ i < Len(x.items)
    \/ x.t = "str" /\ i < Len(x.s)

\* x[i]: the element of a list, a one-character string of a string.
Subscript(x, i) == IF x.t = "list" THEN x.items[i + 1] ELSE JStr("?")

\* C11: the responsiveness validator accepts a payload only if the keys
\* responsive, confidence and reasoning are all present and, for every
\* request index i, responsive[i] is a boolean, confidence[i] is one of
\* high/medium/low whatever its case, and reasoning[i] is a string.
C11_ElementsWellTyped ==
    (ValidatedBy("responsiveness") /\ val.verdict) =>
        /\ val.result.t = "obj"
        /\ required_keys \subseteq DOMAIN val.result.fields
        /\ \A i \in 0..(val.expected_length - 1) :
               LET responsive == val.result.fields["responsive"]
                   confidence == val.result.fields["confidence"]
                   reasoning  == val.result.fields["reasoning"]
               IN  /\ Subscriptable(responsive, i)
                   /\ Subscript(responsive, i).t = "bool"
                   /\ Subscriptable(confidence, i)
                   /\ Subscript(confidence, i).t = "str"
                   /\ Lower(Subscript(confidence, i).s) \in valid_confidence
                   /\ Subscriptable(reasoning, i)
                   /\ Subscript(reasoning, i).t = "str"

\* The confidence level a JSON value names, if any: the validator and the
\* analyzer both read a level through str.lower().
NamesConfidenceLevel(c) == c.t = "str" /\ Lower(c.s) \in valid_confidence

\* One category of an exemptions object is well formed.
CategoryWellFormed(data) ==
    /\ data.t = "obj"
    /\ {"applies", "confidence", "reasoning"} \subseteq DOMAIN data.fields
    /\ data.fields["applies"].t = "bool"
    /\ NamesConfidenceLevel(data.fields["confidence"])
    /\ data.fields["reasoning"].t = "str"

\* C12: the exemption validator accepts a payload only if the key exemptions
\* is present and each of attorney_client, personnel and deliberative has a
\* boolean applies, a confidence naming one of the levels high, medium, low
\* and a string reasoning; so a missing field, a non-boolean applies or an
\* unrecognized confidence in one category rejects the whole payload.
C12_EveryCategoryWellFormed ==
    (ValidatedBy("exemption") /\ val.verdict) =>
        /\ val.result.t = "obj"
        /\ "exemptions" \in DOMAIN val.result.fields
        /\ val.result.fields["exemptions"].t = "obj"
        /\ \A c \in {ATTORNEY_CLIENT, PERSONNEL, DELIBERATIVE} :
               /\ c \in CategoriesOf(val.result)
               /\ CategoryWellFormed(val.result.fields["exemptions"].fields[c])

\* C12 witness: a payload with exactly the three categories, two of them well
\* formed and deliberative with a string for applies, has been rejected.
C12_Witness ==
    /\ ValidatedBy("exemption")
    /\ ~val.verdict
    /\ val.result.t = "obj"
    /\ "exemptions" \in DOMAIN val.result.fields
    /\ val.result.fields["exemptions"].t = "obj"
    /\ CategoriesOf(val.result) = required_exemptions
    /\ CategoryWellFormed(val.result.fields["exemptions"].fields[ATTORNEY_CLIENT])
    /\ CategoryWellFormed(val.result.fields["exemptions"].fields[PERSONNEL])
    /\ val.result.fields["exemptions"].fields[DELIBERATIVE] =
           ExemptionData(JStr("yes"), JStr("high"), JStr("because"))

----------------------------------------------------------------------------
(* Properties of the review lifecycle, one review.                         *)

\* C14: start_review(review, reviewer) on a review that is not COMPLETED sets
\* review_status to IN_PROGRESS and reviewed_by to reviewer; on a COMPLETED
\* review it raises nothing and leaves every field of the review as it was.
C14_StartReview ==
    [][call'.op = "start_review" =>
          /\ ~call'.raised
          /\ review' = IF review.review_status = COMPLETED
                       THEN review
                       ELSE [review EXCEPT !.review_status = IN_PROGRESS,
                                           !.reviewed_by = Some(call'.reviewer)]]_vars

\* C14 witness: start_review was called by a reviewer other than the one on
\* record for a COMPLETED review, which is still COMPLETED under the old name.
C14_Witness ==
    /\ call.op = "start_review"
    /\ review.review_status = COMPLETED
    /\ review.reviewed_by # None
    /\ review.reviewed_by # Some(call.reviewer)

\* C17: after every finalize_review(review, ..., notes) the review is
\* COMPLETED, review_timestamp is set, reviewed_by is the reviewer recorded
\* by the preceding start_review ("user" if there was none) and review_notes
\* equals the notes passed to the call.
C17_FinalizeRecords ==
    [][call'.op = "finalize_review" =>
          /\ review'.review_status = COMPLETED
          /\ review'.review_timestamp # None
          /\ review'.reviewed_by = IF review.reviewed_by = None
                                   THEN Some("user")
                                   ELSE review.reviewed_by
          /\ review'.review_notes = call'.notes]_vars

\* C18: a finalize_review that repeats the call before it (same overrides,
\* same analyses, same notes) leaves final_responsive, final_exemptions and
\* review_status exactly as that call left them.
C18_FinalizeIdempotent ==
    [][(call'.op = "finalize_review" /\ call'.repeat) =>
          /\ review'.final_responsive = review.final_responsive
          /\ review'.final_exemptions = review.final_exemptions
          /\ review'.review_status = review.review_status]_vars

\* C18 witness: finalize_review has been repeated with an exemption analysis
\* and overrides that leave two final exemptions.
C18_Witness ==
    /\ call.op = "finalize_review"
    /\ call.repeat
    /\ call.exemption_analysis # None
    /\ DictTruthy(review.user_exemption_override)
    /\ Len(review.final_exemptions) = 2

\* C19: finalize_review never fails; on a never-touched PENDING review, with
\* no analyses and no overrides, it completes the review with a final
\* responsiveness of false for every request and no final exemptions.
C19_FinalizeUntouched ==
    [][(/\ review = NewDocumentReview
        /\ call'.op = "finalize_review"
        /\ call'.responsiveness_analysis = None
        /\ call'.exemption_analysis = None) =>
          /\ ~call'.raised
          /\ review'.review_status = COMPLETED
          /\ review'.final_responsive = [i \in 1..NumRequests |-> FALSE]
          /\ review'.final_exemptions = <<>>]_vars

----------------------------------------------------------------------------
(* Properties of the review lifecycle, a session of reviews.               *)

ReviewOf(e) == session.document_reviews[e]

StatusOf(e) == session.document_reviews[e].review_status

\* C13: over any sequence of initialize_reviews, start_review,
\* apply_responsiveness_override, apply_exemption_override, finalize_review
\* and batch_approve_ai_determinations, a review becomes COMPLETED only by a
\* finalize_review call (made directly, or by batch_approve_ai_determinations
\* for the reviews it finalizes), and a COMPLETED review stays in the session
\* and stays COMPLETED.
C13_CompletedOnlyByFinalize ==
    [][\A e \in DOMAIN session.document_reviews :
          /\ e \in DOMAIN session'.document_reviews
          /\ (StatusOf(e) # COMPLETED /\ StatusOf(e)' = COMPLETED) =>
                 call'.op \in {"finalize_review", "batch_approve_ai_determinations"}
          /\ StatusOf(e) = COMPLETED => StatusOf(e)' = COMPLETED]_vars

\* C13 witness: initialize_reviews has run on a session that held a
\* COMPLETED review next to one that is not, and both are as they were.
C13_Witness ==
    /\ call.op = "initialize_reviews"
    /\ DOMAIN session.document_reviews = EmailIds
    /\ StatusOf("email_0") = COMPLETED
    /\ StatusOf("email_1") = IN_PROGRESS

\* C15, as stated: a review is COMPLETED only after it has been IN_PROGRESS;
\* no operation takes a PENDING review to COMPLETED without starting it
\* (batch_approve_ai_determinations starts each review before it finalizes
\* it).
C15_InProgressBeforeCompleted ==
    [][\A e \in DOMAIN session.document_reviews :
          (StatusOf(e) = PENDING /\ StatusOf(e)' = COMPLETED) =>
              call'.op = "batch_approve_ai_determinations"]_vars

\* C15, amended: a review's status only moves forward along PENDING,
\* IN_PROGRESS, COMPLETED, and IN_PROGRESS may be skipped: finalize_review
\* completes a PENDING review directly and records the reviewer "user".
C15_ForwardOnly ==
    [][\A e \in DOMAIN session.document_reviews :
          /\ <<StatusOf(e), StatusOf(e)'>> \in
                 {<<PENDING, PENDING>>, <<PENDING, IN_PROGRESS>>,
                  <<PENDING, COMPLETED>>, <<IN_PROGRESS, IN_PROGRESS>>,
                  <<IN_PROGRESS, COMPLETED>>, <<COMPLETED, COMPLETED>>}
          /\ ( /\ StatusOf(e) = PENDING
               /\ StatusOf(e)' = COMPLETED
               /\ call'.op = "finalize_review" ) =>
                 ReviewOf(e)'.reviewed_by =
                     IF ReviewOf(e).reviewed_by = None
                     THEN Some("user")
                     ELSE ReviewOf(e).reviewed_by]_vars

\* C15 witness: a review is COMPLETED by finalize_review under the fallback
\* reviewer "user" and without the batch note: it was never started.
C15_Witness ==
    /\ call.op = "finalize_review"
    /\ \E e \in DOMAIN session.document_reviews :
           /\ StatusOf(e) = COMPLETED
           /\ ReviewOf(e).reviewed_by = Some("user")
           /\ ReviewOf(e).review_notes = ""

\* C16: a COMPLETED review is not edited silently: in every reachable state
\* the final_responsive and final_exemptions of a COMPLETED review are the
\* merge of its current overrides with the analyses it was finalized with.
C16_CompletedAgreesWithMerge ==
    \A e \in DOMAIN session.document_reviews :
        StatusOf(e) = COMPLETED =>
            /\ e \in DOMAIN session.responsiveness_results =>
                   ReviewOf(e).final_responsive =
                       MergeResponsive(ReviewOf(e).user_responsive_override,
                                       session.responsiveness_results[e].responsive, 0)
            /\ e \in DOMAIN session.exemption_results =>
                   ReviewOf(e).final_exemptions =
                       MergeExemptions(ReviewOf(e).user_exemption_override,
                                       session.exemption_results[e])

----------------------------------------------------------------------------
(* Properties of the audit trail.                                          *)

AuditTrailTaken == call.op = "generate_audit_trail" /\ ~Val(session.out).raised

Trail == Val(session.out).trail

CompletedReviews ==
    {e \in DOMAIN session.document_reviews : StatusOf(e) = COMPLETED}

\* The keys of an Optional[dict].
KeysOf(override) == IF override = None THEN {} ELSE DOMAIN Val(override)

\* The trail has exactly one entry per COMPLETED review and no other, and an
\* entry has exactly one record per key of the review's two override maps,
\* each with the reviewer's decision as its override.
OneEntryPerCompletedReview ==
    /\ {Trail[k].email_id : k \in 1..Len(Trail)} = CompletedReviews
    /\ Len(Trail) = Cardinality(CompletedReviews)
    /\ \A k \in 1..Len(Trail) :
           LET r   == ReviewOf(Trail[k].email_id)
               ovr == Trail[k].overrides
           IN  /\ DOMAIN ovr.responsiveness =
                      {RequestKey(i) : i \in KeysOf(r.user_responsive_override)}
               /\ \A i \in KeysOf(r.user_responsive_override) :
                      ovr.responsiveness[RequestKey(i)].override =
                          Val(r.user_responsive_override)[i]
               /\ DOMAIN ovr.exemptions = KeysOf(r.user_exemption_override)
               /\ \A t \in KeysOf(r.user_exemption_override) :
                      ovr.exemptions[t].override = Val(r.user_exemption_override)[t]

\* Every record of the trail.
TrailRecords ==
    UNION {{Trail[k].overrides.responsiveness[x] :
                x \in DOMAIN Trail[k].overrides.responsiveness}
           \cup {Trail[k].overrides.exemptions[t] :
                     t \in DOMAIN Trail[k].overrides.exemptions} :
           k \in 1..Len(Trail)}

\* Where the session holds the machine analysis of an entry's email, the
\* originals of the entry are the machine determinations.
OriginalsAreMachineValues ==
    \A k \in 1..Len(Trail) :
        LET e   == Trail[k].email_id
            ovr == Trail[k].overrides
        IN  /\ e \in DOMAIN session.responsiveness_results =>
                   \A x \in DOMAIN ovr.responsiveness :
                       ovr.responsiveness[x].original =
                           Some(session.responsiveness_results[e].responsive[x[2] + 1])
            /\ e \in DOMAIN session.exemption_results =>
                   \A t \in DOMAIN ovr.exemptions :
                       ovr.exemptions[t].original =
                           Some(session.exemption_results[e][t].applies)

\* C20, as stated: generate_audit_trail returns exactly one entry per
\* COMPLETED review and none for the others; an entry holds, for every key of
\* the review's override maps, a record with original = the machine
\* determination, override = the reviewer's decision and
\* changed = (original != override).
C20_ChangedIsDifference ==
    AuditTrailTaken =>
        /\ OneEntryPerCompletedReview
        /\ OriginalsAreMachineValues
        /\ \A rec \in TrailRecords :
               rec.changed = Some(rec.original # Some(rec.override))

\* C20, amended: one entry per COMPLETED review and none for the others, one
\* record per key of the override maps with override = the reviewer's
\* decision; where the session holds the machine analysis of the document,
\* original is the machine determination and changed = (original !=
\* override); where it holds none, original and changed are both null.
C20_AuditTrail ==
    AuditTrailTaken =>
        /\ OneEntryPerCompletedReview
        /\ OriginalsAreMachineValues
        /\ \A k \in 1..Len(Trail) :
               LET e   == Trail[k].email_id
                   ovr == Trail[k].overrides
               IN  /\ e \notin DOMAIN session.responsiveness_results =>
                          \A x \in DOMAIN ovr.responsiveness :
                              ovr.responsiveness[x].original = None
                   /\ e \notin DOMAIN session.exemption_results =>
                          \A t \in DOMAIN ovr.exemptions :
                              ovr.exemptions[t].original = None
        /\ \A rec \in TrailRecords :
               rec.changed = IF rec.original = None
                             THEN None
                             ELSE Some(Val(rec.original) # rec.override)

\* C20 witness: of two reviews with overrides only email_0 is COMPLETED; the
\* trail is its entry alone, with a changed and an unchanged request record
\* and an exemption record whose original is the machine's.
C20_Witness ==
    /\ AuditTrailTaken
    /\ StatusOf("email_1") = IN_PROGRESS
    /\ DictTruthy(ReviewOf("email_1").user_responsive_override)
    /\ Len(Trail) = 1
    /\ Trail[1].email_id = "email_0"
    /\ DOMAIN Trail[1].overrides.responsiveness = {RequestKey(0), RequestKey(1)}
    /\ Trail[1].overrides.responsiveness[RequestKey(0)].changed = Some(TRUE)
    /\ Trail[1].overrides.responsiveness[RequestKey(1)].changed = Some(FALSE)
    /\ DELIBERATIVE \in DOMAIN Trail[1].overrides.exemptions
    /\ Trail[1].overrides.exemptions[DELIBERATIVE].original = Some(TRUE)

----------------------------------------------------------------------------
(* Properties of a session the processing page built.                      *)

PageComplete == page.pc = "complete"

\* The Python indices of the emails whose identity is e.
PageIndicesOf(e) ==
    {i \in 0..(Len(session.emails) - 1) : EmailIdAt(session, i + 1) = e}

\* The classifier results the page holds for the email at index i.
MachineResponsiveness(i) == page.responsiveness_results[i + 1]

MachineExemptions(i) == page.exemption_results[i + 1]

\* C21: in the audit trail, an overridden field of a document for which no
\* machine analysis exists has original = null, and a field the machine did
\* determine is reported with the machine's value (false as false), never
\* with null.
C21_OriginalNullOnlyWithoutAnalysis ==
    (PageComplete /\ AuditTrailTaken) =>
        \A k \in 1..Len(Trail) :
            \A i \in PageIndicesOf(Trail[k].email_id) :
                Cardinality(PageIndicesOf(Trail[k].email_id)) = 1 =>
                    LET ovr == Trail[k].overrides
                    IN  /\ \A x \in DOMAIN ovr.responsiveness :
                               ovr.responsiveness[x].original =
                                   IF MachineResponsiveness(i) = None
                                   THEN None
                                   ELSE Some(Val(MachineResponsiveness(i)).responsive[x[2] + 1])
                        /\ \A t \in DOMAIN ovr.exemptions :
                               ovr.exemptions[t].original =
                                   IF MachineExemptions(i) = None
                                   THEN None
                                   ELSE Some(Val(MachineExemptions(i))[t].applies)

----------------------------------------------------------------------------
(* Properties of get_review_summary.                                       *)

SummaryTaken == call.op = "get_review_summary"

Summary == Val(session.out)

ReviewsWithStatus(status) ==
    {e \in DOMAIN session.document_reviews : StatusOf(e) = status}

\* Every entry of the responsiveness override maps of the session's reviews.
ResponsivenessOverrideEntries ==
    UNION {{<<e, i>> : i \in KeysOf(ReviewOf(e).user_responsive_override)} :
           e \in DOMAIN session.document_reviews}

\* Every entry of the exemption override maps of the session's reviews.
ExemptionOverrideEntries ==
    UNION {{<<e, t>> : t \in KeysOf(ReviewOf(e).user_exemption_override)} :
           e \in DOMAIN session.document_reviews}

\* C22: get_review_summary reports the number of reviews in each status
\* (they add up to the number of reviews), as override counts the number of
\* entries of the responsiveness and of the exemption override maps over all
\* reviews, and completion_percentage = 100 * completed / total_documents,
\* 0 for a session without documents and exactly 25 for 1 COMPLETED of 4.
C22_ReviewSummary ==
    SummaryTaken =>
        /\ Summary.total_documents = Len(session.emails)
        /\ Summary.review_status.pending = Cardinality(ReviewsWithStatus(PENDING))
        /\ Summary.review_status.in_progress = Cardinality(ReviewsWithStatus(IN_PROGRESS))
        /\ Summary.review_status.completed = Cardinality(ReviewsWithStatus(COMPLETED))
        /\ Summary.review_status.pending + Summary.review_status.in_progress
               + Summary.review_status.completed
           = Cardinality(DOMAIN session.document_reviews)
        /\ Summary.overrides.responsiveness = Cardinality(ResponsivenessOverrideEntries)
        /\ Summary.overrides.exemptions = Cardinality(ExemptionOverrideEntries)
        /\ Summary.overrides.total =
               Cardinality(ResponsivenessOverrideEntries)
               + Cardinality(ExemptionOverrideEntries)
        /\ Summary.completion_percentage.den > 0
        /\ Summary.completion_percentage.num * Len(session.emails) =
               100 * Cardinality(ReviewsWithStatus(COMPLETED))
                   * Summary.completion_percentage.den
        /\ Len(session.emails) = 0 => Summary.completion_percentage.num = 0
        /\ (Len(session.emails) = 4 /\ Cardinality(ReviewsWithStatus(COMPLETED)) = 1) =>
               Summary.completion_percentage = [num |-> 25, den |-> 1]

\* C22 witness: the summary of four documents of which one is COMPLETED, with
\* overrides on record: 25 percent.
C22_Witness ==
    /\ SummaryTaken
    /\ Len(session.emails) = 4
    /\ Summary.review_status.completed = 1
    /\ Summary.review_status.pending > 0
    /\ Summary.review_status.in_progress > 0
    /\ Summary.overrides.responsiveness >= 3
    /\ Summary.overrides.exemptions >= 1
    /\ Summary.completion_percentage = [num |-> 25, den |-> 1]

----------------------------------------------------------------------------
(* Properties of the export.                                               *)

ExportsTaken == call.op = "generate_exports" /\ ~Val(session.out).raised

Production == Val(session.out).production

PrivilegeLog == Val(session.out).privilege_log

\* How often the email at index i occurs in the production set and in the
\* privilege log.
TimesProduced(i) == Cardinality({k \in 1..Len(Production) : Production[k] = i})

TimesLogged(i) == Cardinality({k \in 1..Len(PrivilegeLog) : PrivilegeLog[k].email = i})

\* The review of the email at index i is COMPLETED.
ReviewCompleted(i) ==
    /\ EmailIdAt(session, i + 1) \in DOMAIN session.document_reviews
    /\ StatusOf(EmailIdAt(session, i + 1)) = COMPLETED

AnyTrue(seq) == \E k \in 1..Len(seq) : seq[k]

\* C23: an email whose review is COMPLETED is in the production set iff
\* any(final_responsive) and final_exemptions is empty, and in the privilege
\* log iff it is not in the production set, so in exactly one of the two; an
\* email without a review, or whose review is not COMPLETED, is in neither.
C23_ProductionOrPrivilegeLog ==
    ExportsTaken =>
        \A i \in 0..(Len(session.emails) - 1) :
            IF ReviewCompleted(i)
            THEN LET r == ReviewOf(EmailIdAt(session, i + 1))
                 IN  /\ TimesProduced(i) = IF AnyTrue(r.final_responsive)
                                              /\ r.final_exemptions = <<>>
                                           THEN 1 ELSE 0
                     /\ TimesLogged(i) = 1 - TimesProduced(i)
            ELSE TimesProduced(i) = 0 /\ TimesLogged(i) = 0

\* C23 witness: of two reviewed emails the export produces the first, which is
\* responsive and not exempt, and logs the second, which is responsive and
\* exempt.
C23_Witness ==
    /\ ExportsTaken
    /\ Production = <<0>>
    /\ Len(PrivilegeLog) = 1
    /\ PrivilegeLog[1].email = 1
    /\ PrivilegeLog[1].responsive
    /\ PrivilegeLog[1].exemptions # <<>>

\* C24: every privilege-log entry carries, for each category of its
\* document's final_exemptions, the reasoning string of that category from the
\* document's exemption analysis, and the non_responsive justification when
\* the document is not responsive; no document withheld for an exemption is
\* logged without the reasoning.
C24_PrivilegeLogCarriesReasoning ==
    (PageComplete /\ ExportsTaken) =>
        \A k \in 1..Len(PrivilegeLog) :
            LET entry == PrivilegeLog[k]
            IN  /\ \A j \in 1..Len(entry.exemptions) :
                       /\ entry.exemptions[j] \in DOMAIN entry.reasoning
                       /\ MachineExemptions(entry.email) # None =>
                              entry.reasoning[entry.exemptions[j]] =
                                  Val(MachineExemptions(entry.email))[entry.exemptions[j]].reasoning
                /\ ~entry.responsive =>
                       /\ "non_responsive" \in DOMAIN entry.reasoning
                       /\ entry.reasoning["non_responsive"] = NonResponsiveReason

\* C25: a missing exemption analysis is never turned into a final disposition
\* of "no exemption": a document whose exemption analysis is absent and for
\* which the reviewer recorded no exemption decision is not in the production
\* set, whether its review was finalized or batch approved.
C25_NoProductionWithoutExemptionDecision ==
    \A i \in 0..(Len(session.emails) - 1) :
        LET e == EmailIdAt(session, i + 1)
        IN  (/\ e \in DOMAIN session.document_reviews
             /\ e \notin DOMAIN session.exemption_results
             /\ KeysOf(ReviewOf(e).user_exemption_override) = {})
            => \A k \in 1..Len(_get_producible_documents(session)) :
                   _get_producible_documents(session)[k] # i

----------------------------------------------------------------------------
(* Properties of the processing page.                                      *)

\* The Python indices for which analyze_email_exemptions was called.
ExemptionCalls == {page.exemption_calls[k] : k \in 1..Len(page.exemption_calls)}

\* The page holds a responsiveness analysis for index i that is responsive
\* to at least one request.
FoundResponsive(i) ==
    /\ i < Len(page.responsiveness_results)
    /\ MachineResponsiveness(i) # None
    /\ AnyTrue(Val(MachineResponsiveness(i)).responsive)

\* C26: the exemption classifier is invoked for a document only after its
\* responsiveness classification has finished and returned an analysis that
\* is responsive to at least one request, and once; for a document whose
\* responsiveness analysis is absent or all false it is never invoked and no
\* exemption result is recorded.
C26_ExemptionsOnlyForResponsive ==
    page.pc # "idle" =>
        /\ \A i \in ExemptionCalls : FoundResponsive(i)
        /\ \A k, j \in 1..Len(page.exemption_calls) :
               page.exemption_calls[k] = page.exemption_calls[j] => k = j
        /\ \A i \in 0..(Len(page.exemption_results) - 1) :
               ~FoundResponsive(i) =>
                   /\ i \notin ExemptionCalls
                   /\ MachineExemptions(i) = None
                   /\ Str(i) \notin DOMAIN session.exemption_results

\* C26 witness: the first email was found not responsive and the second
\* responsive; the classifier was called for the second alone, and its result
\* is stored.
C26_Witness ==
    /\ PageComplete
    /\ MachineResponsiveness(0) = Some(NotResponsiveAnalysis)
    /\ page.exemption_calls = <<1>>
    /\ MachineExemptions(1) # None
    /\ DOMAIN session.exemption_results = {"1"}

\* C27: one identity function keys all of the session's maps: the key under
\* which an email's responsiveness and exemption analyses are stored is the
\* key of its review, so a lookup by the review's key finds exactly that
\* email's analyses whenever they exist.
C27_OneIdentityFunction ==
    PageComplete =>
        \A i \in 0..(Len(session.emails) - 1) :
            LET e == EmailIdAt(session, i + 1)
            IN  /\ e \in DOMAIN session.document_reviews
                /\ MachineResponsiveness(i) # None =>
                       DictGet(session.responsiveness_results, e) = MachineResponsiveness(i)
                /\ MachineExemptions(i) # None =>
                       DictGet(session.exemption_results, e) = MachineExemptions(i)

\* C28: after initialize_reviews there is exactly one review per email
\* (len(document_reviews) = len(emails)), no two distinct emails share a
\* review, whether they carry message ids or synthetic identities, every key
\* of document_reviews is the identity of a session email, and every newly
\* created review is PENDING.
C28_OneReviewPerEmail ==
    (PageComplete /\ call.op = "initialize_reviews") =>
        /\ Cardinality(DOMAIN session.document_reviews) = Len(session.emails)
        /\ \A i, j \in 1..Len(session.emails) :
               i # j => EmailIdAt(session, i) # EmailIdAt(session, j)
        /\ \A e \in DOMAIN session.document_reviews :
               /\ \E i \in 1..Len(session.emails) : EmailIdAt(session, i) = e
               /\ StatusOf(e) = PENDING

\* C29: when the identity of a reviewed document has no entries in the
\* session's analysis maps although the document was analysed (an identity
\* mismatch), batch approval fails with an error; it does not fall back to
\* defaults and complete the review.
C29_IdentityMismatchFailsLoudly ==
    (PageComplete /\ call.op = "batch_approve_ai_determinations") =>
        \A e \in DOMAIN session.document_reviews :
            (/\ e \notin DOMAIN session.responsiveness_results
             /\ e \notin DOMAIN session.exemption_results
             /\ \E i \in PageIndicesOf(e) : MachineResponsiveness(i) # None)
            => /\ call.raised
               /\ ~(StatusOf(e) = COMPLETED /\ ReviewOf(e).review_notes = BatchNotes)

----------------------------------------------------------------------------
(* Properties of analyze_email_responsiveness.                             *)

AnalyzerDone == val.pc = "done"

Analyzed == Val(val.out)

\* The client's payload lacks one of the three fields.
LacksField(payload) ==
    payload.t = "obj" /\ ~(required_keys \subseteq DOMAIN payload.fields)

\* One of the three fields of the payload has a length other than n, or none.
WrongLength(payload, n) ==
    /\ payload.t = "obj"
    /\ required_keys \subseteq DOMAIN payload.fields
    /\ \E key \in required_keys :
           ~Sized(payload.fields[key]) \/ PyLen(payload.fields[key]) # n

\* C30: every analysis analyze_email_responsiveness returns has responsive,
\* confidence and reasoning of the same length N = len(cpra_requests), with
\* responsive and reasoning as the payload has them; when the client yields no
\* result, or the payload lacks a field or has a wrong length, it returns None;
\* it raises nothing.
C30_ParsedAnalysisWellFormed ==
    AnalyzerDone =>
        /\ ~Analyzed.raised
        /\ Analyzed.result # None =>
               /\ PyLen(Val(Analyzed.result).responsive) = val.cpra_requests
               /\ Len(Val(Analyzed.result).confidence) = val.cpra_requests
               /\ PyLen(Val(Analyzed.result).reasoning) = val.cpra_requests
               /\ Val(Analyzed.result).responsive = val.analysis_result.fields["responsive"]
               /\ Val(Analyzed.result).reasoning = val.analysis_result.fields["reasoning"]
        /\ (\/ ~Truthy(val.analysis_result)
            \/ LacksField(val.analysis_result)
            \/ WrongLength(val.analysis_result, val.cpra_requests))
           => Analyzed.result = None

\* C30 witness: a payload of N = 2 elements per field, one of them an unknown
\* confidence word, is returned as an analysis of length 2.
C30_Witness ==
    /\ AnalyzerDone
    /\ val.cpra_requests = 2
    /\ Analyzed.result # None
    /\ val.analysis_result.fields["confidence"] =
           WithLast(ConfidenceArray(2), JStr("unsure"))
    /\ Len(Val(Analyzed.result).confidence) = 2
    /\ Val(Analyzed.result).responsive = ResponsiveArray(2)

\* The spellings of a confidence level among the words of the payloads.
SpellingsOf(level) ==
    CASE level = "high"   -> {"high", "HIGH", "High"}
      [] level = "medium" -> {"medium", "MEDIUM", "Medium"}
      [] level = "low"    -> {"low", "LOW", "Low"}

\* The payload has the three fields, each of length n, and every element of
\* its confidence field is a string.
ConfidenceStringsOnly(payload, n) ==
    /\ payload.t = "obj"
    /\ ~LacksField(payload)
    /\ ~WrongLength(payload, n)
    /\ \A k \in 1..n : ItemSeq(payload.fields["confidence"])[k].t = "str"

\* C31: every confidence of a returned analysis is one of high, medium, low:
\* the level the payload's string spells in any letter case, and low for a
\* string that spells none; a payload whose confidences are all strings is
\* returned as an analysis, recognised words or not.
C31_ConfidenceMapping ==
    AnalyzerDone =>
        /\ Analyzed.result # None =>
               \A k \in 1..Len(Val(Analyzed.result).confidence) :
                   LET raw   == ItemSeq(val.analysis_result.fields["confidence"])[k]
                       level == Val(Analyzed.result).confidence[k]
                   IN  /\ level \in valid_confidence
                       /\ \A l \in valid_confidence :
                              raw.s \in SpellingsOf(l) => level = l
                       /\ (\A l \in valid_confidence : raw.s \notin SpellingsOf(l))
                              => level = "low"
        /\ ConfidenceStringsOnly(val.analysis_result, val.cpra_requests)
               => Analyzed.result # None

\* C31 witness: the confidences "MEDIUM", "unsure" come back as medium, low.
C31_Witness ==
    /\ AnalyzerDone
    /\ val.cpra_requests = 2
    /\ val.analysis_result.t = "obj"
    /\ ~LacksField(val.analysis_result)
    /\ val.analysis_result.fields["confidence"] =
           WithLast(ConfidenceArray(2), JStr("unsure"))
    /\ Analyzed.result # None
    /\ Val(Analyzed.result).confidence = <<"medium", "low">>

----------------------------------------------------------------------------
(* Properties of analyze_batch_responsiveness.                             *)

BatchReturned == val.pc = "batch_returned"

\* The Python indices of the batch's emails.
BatchIndices == 0..(Len(val.emails) - 1)

\* What analysing email i yields.
BatchAnalysis(i) ==
    analyze_email_responsiveness(val.emails[i + 1], Some(i), NumRequests,
                                 val.client[i + 1]).result

Succeeded == {i \in BatchIndices : BatchAnalysis(i) # None}

\* The position of a call in the calls made so far, 0 if it was not made.
CallPosition(c) ==
    IF \E k \in 1..Len(val.calls) : val.calls[k] = c
    THEN CHOOSE k \in 1..Len(val.calls) : val.calls[k] = c
    ELSE 0

\* The emails are handled in list order, the callback of an email coming
\* before its analysis when a callback is given.
HandledInOrder ==
    /\ \A k \in 1..Len(val.calls) :
           /\ val.calls[k].total = Len(val.emails)
           /\ val.calls[k].i \in BatchIndices
           /\ val.calls[k].email = val.emails[val.calls[k].i + 1]
           /\ \A j \in 1..(k - 1) : val.calls[j].i <= val.calls[k].i
    /\ \A i \in BatchIndices :
           LET e == val.emails[i + 1]
               n == Len(val.emails)
           IN  (val.progress_callback # None /\ CallPosition(AnalyzeCall(i, n, e)) > 0)
                   => /\ CallPosition(ProgressCall(i, n, e)) > 0
                      /\ CallPosition(ProgressCall(i, n, e)) < CallPosition(AnalyzeCall(i, n, e))

\* C32: analyze_batch_responsiveness handles the emails in list order with the
\* callback before each analysis, and returns with processed_emails equal to
\* total_emails, analysis_errors the number of failed analyses, one result per
\* successfully analysed email (len(results) + analysis_errors = total_emails)
\* and responsive_emails the number of successful analyses that are responsive
\* to some request.
C32_BatchStatistics ==
    /\ HandledInOrder
    /\ BatchReturned =>
           /\ val.stats.total_emails = Len(val.emails)
           /\ val.stats.processed_emails = val.stats.total_emails
           /\ val.stats.analysis_errors = Cardinality(BatchIndices \ Succeeded)
           /\ DOMAIN val.results = {email_id(val.emails[i + 1], i) : i \in Succeeded}
           /\ Cardinality(DOMAIN val.results) + val.stats.analysis_errors
                  = val.stats.total_emails
           /\ val.stats.responsive_emails =
                  Cardinality({i \in Succeeded : IsResponsiveToAny(Val(BatchAnalysis(i)))})

----------------------------------------------------------------------------
(* Properties of batch_approve_ai_determinations.                          *)

\* The step is a call of batch_approve_ai_determinations.
BatchApproved == call'.op = "batch_approve_ai_determinations"

\* The reviews the call finds not COMPLETED.
OpenBefore == {e \in DOMAIN session.document_reviews : StatusOf(e) # COMPLETED}

\* C33: batch_approve_ai_determinations(session, reviewer) returns the number
\* of reviews that were not COMPLETED and leaves every review COMPLETED; each
\* review it finalized has reviewed_by = reviewer, the batch note, and the
\* final determinations of the analyses unchanged (final_responsive the
\* analysis's responsive list, final_exemptions the categories the analysis
\* marks as applying); the reviews that were COMPLETED are unchanged.
C33_BatchApprove ==
    [][BatchApproved =>
        /\ session'.out = Some(Cardinality(OpenBefore))
        /\ DOMAIN session'.document_reviews = DOMAIN session.document_reviews
        /\ \A e \in DOMAIN session.document_reviews :
               LET after == session'.document_reviews[e]
               IN  /\ after.review_status = COMPLETED
                   /\ e \notin OpenBefore => after = ReviewOf(e)
                   /\ e \in OpenBefore =>
                          /\ after.reviewed_by = Some(call'.reviewer)
                          /\ after.review_notes = BatchNotes
                          /\ e \in DOMAIN session.responsiveness_results =>
                                 after.final_responsive =
                                     session.responsiveness_results[e].responsive
                          /\ e \in DOMAIN session.exemption_results =>
                                 after.final_exemptions =
                                     MergeExemptions(None, session.exemption_results[e])
    ]_vars

----------------------------------------------------------------------------
(* Properties of the override calls.                                       *)

\* The override dict of a review side as a function: None is the empty one.
OverrideMap(o) == IF o = None THEN EmptyDict ELSE Val(o)

\* d1 differs from d0 in that key k holds v, and in nothing else.
OnlyKeySet(d0, d1, k, v) ==
    /\ DOMAIN d1 = DOMAIN d0 \cup {k}
    /\ d1[k] = v
    /\ \A j \in DOMAIN d0 \ {k} : d1[j] = d0[j]

\* The fields of the review other than the two override dicts are as before.
RestOfReviewUnchanged ==
    /\ review'.review_status = review.review_status
    /\ review'.reviewed_by = review.reviewed_by
    /\ review'.review_timestamp = review.review_timestamp
    /\ review'.review_notes = review.review_notes
    /\ review'.final_responsive = review.final_responsive
    /\ review'.final_exemptions = review.final_exemptions

\* C34: apply_responsiveness_override(review, analysis, i, d) records d for
\* request index i, replacing an earlier decision for i, and changes nothing
\* else: the overrides of other indices, the exemption overrides, the status
\* and final_* stay as they were; apply_exemption_override does the same for
\* one exemption category.
C34_OverrideFrame ==
    [][/\ call'.op = "apply_responsiveness_override" =>
              /\ review'.user_responsive_override # None
              /\ OnlyKeySet(OverrideMap(review.user_responsive_override),
                            Val(review'.user_responsive_override),
                            call'.request_index, call'.user_decision)
              /\ review'.user_exemption_override = review.user_exemption_override
              /\ RestOfReviewUnchanged
       /\ call'.op = "apply_exemption_override" =>
              /\ review'.user_exemption_override # None
              /\ OnlyKeySet(OverrideMap(review.user_exemption_override),
                            Val(review'.user_exemption_override),
                            call'.exemption_type, call'.user_decision)
              /\ review'.user_responsive_override = review.user_responsive_override
              /\ RestOfReviewUnchanged
    ]_vars

\* C34 witness: the override of request 0 has just been recorded on a review
\* that is COMPLETED with finals from the analysis and that holds an earlier
\* override of the last request and one of a category: all of them are still
\* there.
C34_Witness ==
    /\ call.op = "apply_responsiveness_override"
    /\ call.request_index = 0
    /\ ~call.user_decision
    /\ review.user_responsive_override # None
    /\ Val(review.user_responsive_override) =
           [k \in {0, NumRequests - 1} |-> k # 0]
    /\ review.user_exemption_override = Some([k \in {DELIBERATIVE} |-> FALSE])
    /\ review.review_status = COMPLETED
    /\ review.final_responsive = SampleRespAnalysis.responsive

----------------------------------------------------------------------------
(* Properties of the payload extractor.                                    *)

Extracted == ex.pc = "extracted"

\* The Python indices of the fences of a text, in order.
FencePositions(text) == {i \in 0..(Len(text) - 1) : text[i + 1] = FENCE}

\* The text holds a fenced block: an opening fence and a closing fence.
HasFencedBlock(text) == Cardinality(FencePositions(text)) >= 2

\* What stands between the first fence and the next one, without the rest of
\* the opening fence's line (the language tag) when the block goes on past
\* that line.
FencedContent(text) ==
    LET open    == Find(text, FENCE)
        rest    == SubSeq(text, open + 2, Len(text))
        close   == Find(rest, FENCE)
        between == SubSeq(rest, 1, close)
        eol     == Find(between, NL)
    IN  IF eol >= 0 THEN SubSeq(between, eol + 2, Len(between)) ELSE between

\* The span from the first "{" to the last "}".
HasBraceSpan(text) ==
    Find(text, LBRACE) >= 0 /\ RFind(text, RBRACE) > Find(text, LBRACE)

BraceSpan(text) == SubSeq(text, Find(text, LBRACE) + 1, RFind(text, RBRACE) + 1)

\* C35: the extractor returns the content of the first fenced block when the
\* text holds one, wherever the block starts (compared up to surrounding
\* white space); otherwise the span from the first "{" to the last "}" when
\* there is one; otherwise the text unchanged.
C35_ExtractorCases ==
    Extracted =>
        IF HasFencedBlock(ex.response)
        THEN Strip(ex.out) = Strip(FencedContent(ex.response))
        ELSE IF HasBraceSpan(ex.response)
        THEN ex.out = BraceSpan(ex.response)
        ELSE ex.out = ex.response

----------------------------------------------------------------------------
(* Properties of the processing order.                                     *)

\* The responsiveness classification of the k-th email has been made.
Classified(k) == Len(page.responsiveness_results) >= k

\* The pipeline of the k-th email is through: its exemption step is decided
\* (the classifier called, or skipped by the gate) and its review is set up.
PipelineDone(k) ==
    /\ Len(page.exemption_results) >= k
    /\ EmailIdAt(session, k) \in DOMAIN session.document_reviews

\* An entry of a session map, once written, is not written again while the
\* emails are processed.
WrittenOnce(before, after) ==
    \A key \in DOMAIN before : key \in DOMAIN after /\ after[key] = before[key]

\* C36: processing is a per-document pipeline: an email is classified only
\* when every email before it has been through its responsiveness step, its
\* exemption step and its review set-up; and while the emails are processed
\* every entry of the session's maps is written at most once.
C36_PerDocumentPipeline ==
    /\ [](\A k \in 1..Len(session.emails) :
              Classified(k) => \A j \in 1..(k - 1) : PipelineDone(j))
    /\ [][page.pc # "complete" =>
              /\ WrittenOnce(session.responsiveness_results,
                             session'.responsiveness_results)
              /\ WrittenOnce(session.exemption_results, session'.exemption_results)
              /\ WrittenOnce(session.document_reviews, session'.document_reviews)]_vars

----------------------------------------------------------------------------
(* Termination of the retry loops.                                         *)

\* C37: for every attempt limit retry_attempts >= 0 and every sequence of
\* model outputs, analyze_responsiveness and analyze_exemptions invoke the
\* gateway at most retry_attempts times and then return, with a payload that
\* passed the validator or with None; with retry_attempts = 0 they return
\* None without any invocation.
C37_TerminatesWithinLimit ==
    /\ [](ex.calls <= ex.retry_attempts)
    /\ [](Returned =>
              /\ ex.result # None =>
                     Validate(ex.task, Val(ex.result), NumRequests)
              /\ ex.retry_attempts = 0 => (ex.result = None /\ ex.calls = 0))
    /\ <>Returned

\* C37 witness: a call with the largest limit has returned a validated
\* payload from its last permitted attempt.
C37_Witness ==
    /\ Returned
    /\ ex.retry_attempts = MaxAttempts
    /\ ex.calls = MaxAttempts
    /\ ex.result # None

----------------------------------------------------------------------------
(* Properties of failing calls.                                            *)

\* C38: an override call that raises (a request index outside the analysis,
\* or no analysis) leaves the review as it was: no override is recorded, so
\* the next finalize_review gives what it would have given without the call.
C38_FailedOverrideChangesNothing ==
    [][(/\ call'.op \in {"apply_responsiveness_override", "apply_exemption_override"}
        /\ call'.raised)
           => /\ review'.user_responsive_override = review.user_responsive_override
              /\ review'.user_exemption_override = review.user_exemption_override
              /\ \A ra \in CallRespAnalyses, ea \in CallExemptAnalyses :
                     Finalized(review', ra, ea, "") = Finalized(review, ra, ea, "")
    ]_vars

----------------------------------------------------------------------------
(* finalize_review as a function of its inputs.                            *)

\* A review that has no history and holds the override maps of r.
FreshWithOverridesOf(r) ==
    [NewDocumentReview EXCEPT
        !.user_responsive_override = r.user_responsive_override,
        !.user_exemption_override  = r.user_exemption_override]

\* C39: the finals finalize_review leaves depend on the override maps and the
\* analysis arguments alone: a review with any history ends with the finals
\* that a review without history, holding the same override maps, ends with
\* under the same arguments; nothing an earlier finalize_review left in
\* final_* survives.
C39_FinalizePure ==
    [][call'.op = "finalize_review" =>
           LET fresh == Finalized(FreshWithOverridesOf(review),
                                  call'.responsiveness_analysis,
                                  call'.exemption_analysis, call'.notes)
           IN  /\ review'.final_responsive = fresh.final_responsive
               /\ review'.final_exemptions = fresh.final_exemptions
    ]_vars

====
